---- MODULE Spec2Model ----
(***************************************************************************)
(* TubeChat backend: a FastAPI service that answers questions about a      *)
(* YouTube video through a LangGraph pipeline.  The model covers the       *)
(* process-wide caches (agents.py, graph.py, routers/stream.py,            *)
(* routers/chat.py), the stored rows (schemas.py), the bearer-token check  *)
(* (routers/auth.py), the chat endpoints (routers/chat.py,                 *)
(* routers/user.py) and the streaming endpoint (routers/stream.py).        *)
(***************************************************************************)
EXTENDS Integers, Sequences, FiniteSets, TLC

VARIABLES
    now,                  \* wall clock, in minutes
    users,                \* rows of table users
    chats,                \* rows of table chats
    messages,             \* rows of table messages, in created_at order
    nextChatId,           \* the rows ever inserted into chats, plus one
    nextMsgId,            \* autoincrement of messages.id
    video_info_cache,     \* chat.py _video_info_cache: url -> metadata
    vector_store_cache,   \* agents.py _vector_store_cache, in insertion order
    deleted_collections,  \* vector stores on which delete_collection() ran
    nextVs,               \* identity of the next Chroma instance built
    active_graphs,        \* graph.py active_graphs: chat_id -> (app, url)
    summary_cache,        \* stream.py _summary_cache: chat_id -> summary
    req,                  \* the stream calls: position and per-call state
    resp,                 \* the HTTP response of the last handler that returned
    issued,               \* the tokens login has handed out, with their issue time
    vec_log,              \* what the last step did to the vector-index cache
    fn_args,              \* arguments of the last direct call of a node function
    fn_result,            \* what that call returned
    workers               \* threadpool workers running create_chat step by step

vars == <<now, users, chats, messages, nextChatId, nextMsgId, video_info_cache,
          vector_store_cache, deleted_collections, nextVs, active_graphs,
          summary_cache, req, resp, issued, vec_log, fn_args, fn_result,
          workers>>

dbVars == <<users, chats, messages, nextChatId, nextMsgId>>
vecVars == <<vector_store_cache, deleted_collections, nextVs>>
cacheVars == <<video_info_cache, vector_store_cache, deleted_collections, nextVs,
               active_graphs, summary_cache>>
fnVars == <<fn_args, fn_result>>

-----------------------------------------------------------------------------
(* Bounds of the model *)

\* vector stores built in one run (nextVs stops at MaxBuilds + 1)
MaxBuilds == 5

\* stream calls the service accepts in one run
MaxCalls == 2

\* chat ids handed out in one run (nextChatId stops at MaxChats + 1)
MaxChats == 3

\* the clock stops at MaxTime, and one Tick advances it by TickMinutes
MaxTime == 120
TickMinutes == 30

\* tokens held by clients at once
MaxTokens == 2

\* threadpool workers that run create_chat at the same time
MaxWorkers == 2

\* candidates one similarity search returns
MaxResults == 4

\* messages of the longest stored history handed to the buffer
MaxHistory == 13

\* caption tracks one caption dict of a video lists
MaxTracks == 2

(* Program constants *)

\* agents.py: MAX_CACHED_VECTORS = 3
MAX_CACHED_VECTORS == 3

\* the video URLs callers submit
URLS == {"A", "B", "C", "D"}

\* what the transcript fetch and the embedding provider do on one build
BuildOutcomes == {"ok", "transcript_error", "embedding_error"}

\* what a build does when get_transcript_text returns the empty string: the
\* splitter makes no chunk of it and Chroma.from_documents is called with no
\* document, which the vector store library either rejects or indexes
EmptyTranscriptOutcomes == {"empty_rejected", "empty_indexed"}

NoVecOp == [op |-> "none", url |-> "", outcome |-> ""]

-----------------------------------------------------------------------------
(* agents.py: the vector-index cache *)

\* the keys of _vector_store_cache, in dict (insertion) order
CachedUrls(cache) == [i \in 1..Len(cache) |-> cache[i].url]

InCache(cache, url) == \E i \in 1..Len(cache) : cache[i].url = url

Lookup(cache, url) == (CHOOSE i \in 1..Len(cache) : cache[i].url = url)

\* dict.pop(url): the entry leaves, the others keep their order
Pop(cache, url) == SelectSeq(cache, LAMBDA e : e.url # url)

\* a cache that drops its newest entry when full
evict_newest_vector(cache) ==
    IF Len(cache) >= MAX_CACHED_VECTORS
    THEN [cache |-> SubSeq(cache, 1, Len(cache) - 1),
          dropped |-> {cache[Len(cache)].vs}]
    ELSE [cache |-> cache, dropped |-> {}]

\* a cache that evicts only once it is over capacity
evict_when_over(cache) ==
    IF Len(cache) > MAX_CACHED_VECTORS
    THEN [cache |-> Tail(cache), dropped |-> {Head(cache).vs}]
    ELSE [cache |-> cache, dropped |-> {}]

\* _evict_oldest_vector(): pops next(iter(cache)) when the cache is full and
\* calls delete_collection() on it
evict_oldest_vector(cache) ==
    IF Len(cache) >= MAX_CACHED_VECTORS
    THEN [cache |-> Tail(cache), dropped |-> {Head(cache).vs}]
    ELSE [cache |-> cache, dropped |-> {}]

\* a get_vector_store that makes room in the cache before it fetches the
\* transcript
get_vector_store_evict_first(cache, deleted, next, url, ext) ==
    IF InCache(cache, url)
    THEN [cache |-> cache, deleted |-> deleted, next |-> next,
          vs |-> cache[Lookup(cache, url)].vs, raised |-> "none",
          outcome |-> "hit"]
    ELSE LET ev == evict_oldest_vector(cache) IN
         IF ext \in {"transcript_error", "embedding_error", "empty_rejected"}
         THEN [cache |-> ev.cache, deleted |-> deleted \cup ev.dropped,
               next |-> next, vs |-> 0, raised |-> "ValueError",
               outcome |-> ext]
         ELSE [cache |-> Append(ev.cache, [url |-> url, vs |-> next]),
               deleted |-> deleted \cup ev.dropped, next |-> next + 1,
               vs |-> next, raised |-> "none", outcome |-> "built"]

\* get_vector_store(url).  ext is what the outside world does during a build.
\* A hit returns the cached store.  A miss fetches the transcript (which may
\* raise before anything is touched), evicts, embeds (which may raise after the
\* eviction) and inserts the new store at the end of the dict.  The text of
\* the transcript is not looked at: an empty one goes the same way.
get_vector_store(cache, deleted, next, url, ext) ==
    IF InCache(cache, url)
    THEN [cache |-> cache, deleted |-> deleted, next |-> next,
          vs |-> cache[Lookup(cache, url)].vs, raised |-> "none",
          outcome |-> "hit"]
    ELSE IF ext = "transcript_error"
    THEN [cache |-> cache, deleted |-> deleted, next |-> next,
          vs |-> 0, raised |-> "ValueError", outcome |-> "transcript_error"]
    ELSE LET ev == evict_oldest_vector(cache) IN
         IF ext = "embedding_error"
         THEN [cache |-> ev.cache, deleted |-> deleted \cup ev.dropped,
               next |-> next, vs |-> 0, raised |-> "EmbeddingError",
               outcome |-> "embedding_error"]
         ELSE IF ext = "empty_rejected"
         THEN [cache |-> ev.cache, deleted |-> deleted \cup ev.dropped,
               next |-> next, vs |-> 0, raised |-> "ValueError",
               outcome |-> "empty_rejected"]
         ELSE [cache |-> Append(ev.cache, [url |-> url, vs |-> next]),
               deleted |-> deleted \cup ev.dropped, next |-> next + 1,
               vs |-> next, raised |-> "none",
               outcome |-> IF ext = "empty_indexed" THEN "built_empty" ELSE "built"]

\* release_vector_store(url)
release_vector_store(cache, deleted, url) ==
    IF InCache(cache, url)
    THEN [cache |-> Pop(cache, url),
          deleted |-> deleted \cup {cache[Lookup(cache, url)].vs},
          outcome |-> "released"]
    ELSE [cache |-> cache, deleted |-> deleted, outcome |-> "absent"]

-----------------------------------------------------------------------------
(* routers/auth.py: bearer tokens and identity resolution *)

\* auth.py: ACCESS_TOKEN_EXPIRE_MINUTES = int(os.getenv(..., 60))
ACCESS_TOKEN_EXPIRE_MINUTES == 60

USERNAMES == {"alice", "bob"}

\* jwt.encode(to_encode, SECRET_KEY): a token signed with the server's secret
SignedToken(sub, exp) == [kind |-> "jwt", sub |-> sub, exp |-> exp, sig |-> "server"]

\* create_access_token(data): data plus exp = now + the expiry window
create_access_token(sub, t) == SignedToken(sub, t + ACCESS_TOKEN_EXPIRE_MINUTES)

\* what a caller can put in the Authorization header without the secret
MissingToken == [kind |-> "missing", sub |-> "", exp |-> 0, sig |-> ""]
MalformedToken == [kind |-> "malformed", sub |-> "", exp |-> 0, sig |-> ""]
ForgedToken(sub, exp) == [kind |-> "jwt", sub |-> sub, exp |-> exp, sig |-> "other"]

\* a decode that does not verify the exp claim
jwt_decode_no_exp(token, t) ==
    /\ token.kind = "jwt"
    /\ token.sig = "server"

\* jwt.decode(token, SECRET_KEY, algorithms=[ALGORITHM]): the signature and
\* the exp claim are verified; jose rejects exp < now
jwt_decode_ok(token, t) ==
    /\ token.kind = "jwt"
    /\ token.sig = "server"
    /\ ~(token.exp < t)

UserByName(name) == {u \in users : u.username = name}

\* an identity check that trusts the sub claim without looking the user up
get_current_user_no_lookup(token) ==
    IF token.kind # "jwt" \/ token.sig # "server" \/ token.exp < now
    THEN [ok |-> FALSE, user_id |-> 0, detail |-> "Could not validate credentials"]
    ELSE [ok |-> TRUE,
          user_id |-> IF UserByName(token.sub) = {} THEN 0
                      ELSE (CHOOSE u \in UserByName(token.sub) : TRUE).id,
          detail |-> ""]

\* get_current_user(token, db) behind OAuth2PasswordBearer: the user row, or
\* the 401 the dependency raises
get_current_user(token) ==
    IF token.kind = "missing"
    THEN [ok |-> FALSE, user_id |-> 0, detail |-> "Not authenticated"]
    ELSE IF ~jwt_decode_ok(token, now)
    THEN [ok |-> FALSE, user_id |-> 0, detail |-> "Could not validate credentials"]
    ELSE IF token.sub = ""
    THEN [ok |-> FALSE, user_id |-> 0, detail |-> "Could not validate credentials"]
    ELSE IF UserByName(token.sub) = {}
    THEN [ok |-> FALSE, user_id |-> 0, detail |-> "Could not validate credentials"]
    ELSE [ok |-> TRUE, user_id |-> (CHOOSE u \in UserByName(token.sub) : TRUE).id,
          detail |-> ""]

-----------------------------------------------------------------------------
(* The HTTP responses *)

Response(op, token, chat_id, status, detail, body) ==
    [op |-> op, token |-> token, chat_id |-> chat_id, status |-> status,
     detail |-> detail, body |-> body]

NoResponse == Response("none", MissingToken, 0, 0, "", <<>>)

Unauthorized(op, token, chat_id) ==
    Response(op, token, chat_id, 401, get_current_user(token).detail, <<>>)

NotFound(op, token, chat_id) ==
    Response(op, token, chat_id, 404, "Chat not found", <<>>)

-----------------------------------------------------------------------------
(* schemas.py: the stored rows *)

\* Chat(name, url, user_id, title, author, thumbnail_url) with both timestamp
\* defaults read at insert
ChatRow(id, user_id, url, name, meta, t) ==
    [id |-> id, user_id |-> user_id, url |-> url, name |-> name,
     title |-> meta.title, author |-> meta.author,
     thumbnail_url |-> meta.thumbnail_url, created_at |-> t, last_session |-> t]

\* a lookup that filters on the id alone
AnyChat(chat_id, user_id) ==
    {c \in chats : c.id = chat_id}

\* db.query(Chat).filter(Chat.id == chat_id, Chat.user_id == user.id).first()
OwnedChat(chat_id, user_id) ==
    {c \in chats : c.id = chat_id /\ c.user_id = user_id}

ChatById(chat_id) == {c \in chats : c.id = chat_id}

\* messages.chat_id is a foreign key to chats.id: the store refuses a message
\* row whose chat_id names no chat row
ForeignKeyHolds(rows, chat_id) == \E c \in rows : c.id = chat_id

\* db.query(Message).filter(Message.chat_id == chat_id)
\*   .order_by(Message.created_at.asc()).all()
MessagesOf(msgs, chat_id) == SelectSeq(msgs, LAMBDA m : m.chat_id = chat_id)

\* a delete that leaves the messages where they are
NoCascade(msgs, chat_id) == msgs

\* a delete that empties the message table
DeleteEveryMessage(msgs, chat_id) == <<>>

\* db.delete(chat) under cascade="all, delete-orphan": the chat row and its
\* messages leave together
CascadeDelete(msgs, chat_id) == SelectSeq(msgs, LAMBDA m : m.chat_id # chat_id)

\* an ordering by creation time, latest first
RECURSIVE SortByCreated(_)
SortByCreated(S) ==
    IF S = {} THEN <<>>
    ELSE LET top == CHOOSE c \in S :
                      \A d \in S : \/ c.created_at > d.created_at
                                   \/ (c.created_at = d.created_at /\ c.id >= d.id)
         IN <<top>> \o SortByCreated(S \ {top})

\* .order_by(Chat.last_session.desc()): the caller's rows, latest first
RECURSIVE SortDesc(_)
SortDesc(S) ==
    IF S = {} THEN <<>>
    ELSE LET top == CHOOSE c \in S :
                      \A d \in S : \/ c.last_session > d.last_session
                                   \/ (c.last_session = d.last_session /\ c.id <= d.id)
         IN <<top>> \o SortDesc(S \ {top})

\* _chat_to_return(chat)
chat_to_return(c) ==
    [id |-> c.id, name |-> IF c.name # "" THEN c.name
                           ELSE IF c.title # "" THEN c.title ELSE "Untitled",
     url |-> c.url, title |-> c.title, author |-> c.author,
     thumbnail_url |-> c.thumbnail_url, created_at |-> c.created_at,
     last_session |-> c.last_session]

-----------------------------------------------------------------------------
(* routers/chat.py: video metadata *)

\* a URL the id pattern does not match
BadUrl == "no-video-id"

\* an extraction that finds an id in every URL
get_video_id_any(url) == "id-" \o url

\* get_video_id(url): the 11-character id the pattern captures, "" for None
get_video_id(url) ==
    IF url \in URLS THEN "id-" \o url ELSE ""

\* what the two metadata providers do on one lookup: yt-dlp answers or
\* raises; the Piped API answers 200, answers another status, or the request
\* raises
MetaOutcomes == [ytdlp : {"ok", "raise"}, piped : {"ok", "not200", "raise"}]

\* the metadata each strategy of is_valid_youtube_url yields: yt-dlp, Piped,
\* or the generic fallback
resolve_metadata(url, strategy) ==
    IF strategy = "ytdlp"
    THEN [title |-> "yt-title", author |-> "yt-uploader", thumbnail_url |-> "yt-thumb"]
    ELSE IF strategy = "piped"
    THEN [title |-> "piped-title", author |-> "piped-uploader",
          thumbnail_url |-> "piped-thumb"]
    ELSE [title |-> "YouTube Video (Metadata Hidden)", author |-> "Unknown",
          thumbnail_url |-> "https://img.youtube.com/vi/" \o get_video_id(url)
                            \o "/mqdefault.jpg"]

\* a yt-dlp lookup that never answers
get_yt_metadata_blocked(url, ext) == <<>>

\* get_yt_metadata(url): the dict, or None (<<>>) when yt-dlp raises
get_yt_metadata(url, ext) ==
    IF ext.ytdlp = "ok" THEN <<resolve_metadata(url, "ytdlp")>> ELSE <<>>

\* fetch_metadata_piped(video_id): the dict on a 200, None (<<>>) on another
\* status or when the request raises
fetch_metadata_piped(url, ext) ==
    IF ext.piped = "ok" THEN <<resolve_metadata(url, "piped")>> ELSE <<>>

\* is_valid_youtube_url(url): cached, or no video id, or the waterfall yt-dlp,
\* Piped, fallback, which ends with _video_info_cache[url] = metadata.  calls
\* lists the external lookups made, in order.
is_valid_youtube_url(cache, url, ext) ==
    IF url \in DOMAIN cache
    THEN [valid |-> TRUE, cache |-> cache, calls |-> <<>>]
    ELSE IF get_video_id(url) = ""
    THEN [valid |-> FALSE, cache |-> cache, calls |-> <<>>]
    ELSE LET first == get_yt_metadata(url, ext)
             second == IF first = <<>> THEN fetch_metadata_piped(url, ext) ELSE first
             metadata == IF second = <<>> THEN resolve_metadata(url, "fallback")
                         ELSE second[1]
         IN [valid |-> TRUE,
             cache |-> [u \in (DOMAIN cache) \cup {url} |->
                          IF u = url THEN metadata ELSE cache[u]],
             calls |-> <<"ytdlp">> \o (IF first = <<>> THEN <<"piped">> ELSE <<>>)]

-----------------------------------------------------------------------------
(* agents.py: history buffering *)

\* agents.py: BUFFER_SIZE = 10
BUFFER_SIZE == 10

\* what llm.invoke returns to summarize_history: a summary text, or it raises
SummaryOutcomes == {"summary-1", "summary-2", "error"}

\* summarize_history(chat_history, existing_summary).  calls lists the
\* llm.invoke calls made, each with the history and the summary in its prompt.
summarize_history(overflow, existing_summary, llm) ==
    IF overflow = <<>>
    THEN [summary |-> existing_summary, raised |-> FALSE, calls |-> <<>>]
    ELSE LET call == [chat_history |-> overflow,
                      existing_summary |-> existing_summary]
         IN IF llm = "error"
            THEN [summary |-> existing_summary, raised |-> TRUE, calls |-> <<call>>]
            ELSE [summary |-> llm, raised |-> FALSE, calls |-> <<call>>]

\* a buffer that keeps the oldest BUFFER_SIZE messages
build_chat_context_oldest(chat_history, summary, llm) ==
    IF Len(chat_history) <= BUFFER_SIZE
    THEN [recent |-> chat_history, summary |-> summary, raised |-> FALSE,
          calls |-> <<>>]
    ELSE LET overflow == SubSeq(chat_history, BUFFER_SIZE + 1, Len(chat_history))
             recent == SubSeq(chat_history, 1, BUFFER_SIZE)
             s == summarize_history(overflow, summary, llm)
         IN [recent |-> recent, summary |-> s.summary, raised |-> s.raised,
             calls |-> s.calls]

\* build_chat_context(chat_history, summary)
build_chat_context(chat_history, summary, llm) ==
    IF Len(chat_history) <= BUFFER_SIZE
    THEN [recent |-> chat_history, summary |-> summary, raised |-> FALSE,
          calls |-> <<>>]
    ELSE LET overflow == SubSeq(chat_history, 1, Len(chat_history) - BUFFER_SIZE)
             recent == SubSeq(chat_history, Len(chat_history) - BUFFER_SIZE + 1,
                              Len(chat_history))
             s == summarize_history(overflow, summary, llm)
         IN [recent |-> recent, summary |-> s.summary, raised |-> s.raised,
             calls |-> s.calls]

\* _summary_cache.get(chat_id, "")
SummaryOf(cache, chat_id) == IF chat_id \in DOMAIN cache THEN cache[chat_id] ELSE ""

\* a _load_chat_history whose summary cache has one slot for all chats
load_chat_history_shared(msgs, cache, chat_id, llm) ==
    LET rows == MessagesOf(msgs, chat_id)
        history == [i \in 1..Len(rows) |->
                      [role |-> rows[i].role, content |-> rows[i].content]]
        existing_summary == SummaryOf(cache, chat_id)
        b == build_chat_context(history, existing_summary, llm)
    IN [recent |-> b.recent, summary |-> b.summary, raised |-> b.raised,
        cache |-> IF ~b.raised /\ b.summary # existing_summary
                  THEN [c \in {msgs[i].chat_id : i \in 1..Len(msgs)} |-> b.summary]
                  ELSE cache]

\* _load_chat_history(db, chat_id): the stored messages of the chat as
\* {role, content}, buffered; the summary cache is written when the summary changed
load_chat_history(msgs, cache, chat_id, llm) ==
    LET rows == MessagesOf(msgs, chat_id)
        history == [i \in 1..Len(rows) |->
                      [role |-> rows[i].role, content |-> rows[i].content]]
        existing_summary == SummaryOf(cache, chat_id)
        b == build_chat_context(history, existing_summary, llm)
    IN [recent |-> b.recent, summary |-> b.summary, raised |-> b.raised,
        cache |-> IF ~b.raised /\ b.summary # existing_summary
                  THEN [c \in (DOMAIN cache) \cup {chat_id} |->
                          IF c = chat_id THEN b.summary ELSE cache[c]]
                  ELSE cache]

-----------------------------------------------------------------------------
(* agents.py: the RETRIEVER node *)

\* retriever_tool: threshold = 0.65, in hundredths like every score here
threshold == 65

\* a filter that drops a candidate scoring exactly the threshold
RECURSIVE found_docs_strict(_)
found_docs_strict(results) ==
    IF results = <<>> THEN <<>>
    ELSE (IF Head(results).score > threshold THEN <<Head(results).page_content>>
          ELSE <<>>) \o found_docs_strict(Tail(results))

\* the loop `for doc, score in results: if score >= threshold: append`
RECURSIVE found_docs(_)
found_docs(results) ==
    IF results = <<>> THEN <<>>
    ELSE (IF Head(results).score >= threshold THEN <<Head(results).page_content>>
          ELSE <<>>) \o found_docs(Tail(results))

\* retriever_tool(state), given what similarity_search_with_score returns for
\* the query
retriever_tool(question, reformulated_query, results) ==
    [query |-> IF reformulated_query # "" THEN reformulated_query ELSE question,
     question |-> question,
     documents |-> found_docs(results)]

-----------------------------------------------------------------------------
(* graph.py: the per-chat pipeline *)

Nodes == {"REFORMULATE", "RETRIEVER", "AGENT", "JUDGE", "SEARCH_TAVILY",
          "FINAL_AGENT", "GENERATE_ANSWER"}

\* a graph that sends the second draft back to the judge
EdgesWithRetry == {<<"START", "REFORMULATE">>, <<"REFORMULATE", "RETRIEVER">>,
                   <<"RETRIEVER", "AGENT">>, <<"AGENT", "JUDGE">>,
                   <<"SEARCH_TAVILY", "FINAL_AGENT">>, <<"FINAL_AGENT", "JUDGE">>,
                   <<"GENERATE_ANSWER", "END">>}

\* workflow.add_edge(a, b)
Edges == {<<"START", "REFORMULATE">>, <<"REFORMULATE", "RETRIEVER">>,
          <<"RETRIEVER", "AGENT">>, <<"AGENT", "JUDGE">>,
          <<"SEARCH_TAVILY", "FINAL_AGENT">>, <<"FINAL_AGENT", "GENERATE_ANSWER">>,
          <<"GENERATE_ANSWER", "END">>}

\* state.get("is_good", False): the channel is {} while no JUDGE has written it
IsGood(is_good) == IF is_good = {} THEN FALSE ELSE (CHOOSE b \in is_good : TRUE)

\* a router with its branches swapped
router_swapped(is_good) == IF IsGood(is_good) THEN "SEARCH_TAVILY" ELSE "GENERATE_ANSWER"

\* router(state)
router(is_good) == IF IsGood(is_good) THEN "GENERATE_ANSWER" ELSE "SEARCH_TAVILY"

\* workflow.add_conditional_edges("JUDGE", router, {...})
PathMap(key) == IF key = "GENERATE_ANSWER" THEN "GENERATE_ANSWER" ELSE "SEARCH_TAVILY"

\* the node the compiled graph runs after `node`
NextNode(node, is_good) ==
    IF node = "JUDGE" THEN PathMap(router(is_good))
    ELSE (CHOOSE n \in Nodes \cup {"END"} : <<node, n>> \in Edges)

\* get_chat_graph(chat_id, url): the cached app, or a new one whose RETRIEVER
\* closes over get_vector_store(url); a failed build caches nothing
get_chat_graph(graphs, cache, deleted, next, chat_id, url, ext) ==
    IF chat_id \in DOMAIN graphs
    THEN [graphs |-> graphs, cache |-> cache, deleted |-> deleted, next |-> next,
          raised |-> "none", built |-> FALSE, log |-> NoVecOp]
    ELSE LET g == get_vector_store(cache, deleted, next, url, ext) IN
         [graphs |-> IF g.raised = "none"
                     THEN [c \in (DOMAIN graphs) \cup {chat_id} |->
                             IF c = chat_id
                             THEN [url |-> url, vs |-> g.vs, is_good |-> {},
                                   messages |-> <<>>]
                             ELSE graphs[c]]
                     ELSE graphs,
          cache |-> g.cache, deleted |-> g.deleted, next |-> g.next,
          raised |-> g.raised, built |-> (g.raised = "none"),
          log |-> [op |-> "get", url |-> url, outcome |-> g.outcome]]

-----------------------------------------------------------------------------
(* routers/stream.py: one stream call *)

QUESTIONS == {"q1", "q2"}

\* the Output objects generate_answer can return: answer and follow_up
Payloads == {[answer |-> "answer-1", follow_up |-> <<"f1", "f2", "f3">>],
             [answer |-> "answer-2", follow_up |-> <<>>]}

\* json.dumps of a list of strings, as the tokens of the text
RECURSIVE JsonItems(_)
JsonItems(list) ==
    IF list = <<>> THEN <<>>
    ELSE IF Len(list) = 1 THEN <<Head(list)>>
    ELSE <<Head(list), ",">> \o JsonItems(Tail(list))

json_dumps(list) == <<"[">> \o JsonItems(list) \o <<"]">>

\* status texts with the two verdicts exchanged
StatusMsgInverted(node, is_good) ==
    CASE node = "REFORMULATE" -> "Understanding query..."
      [] node = "RETRIEVER" -> "Searching video..."
      [] node = "AGENT" -> "Analyzing..."
      [] node = "JUDGE" -> IF IsGood(is_good) THEN "Refining answer..." ELSE "Verified"
      [] node = "SEARCH_TAVILY" -> "Searching the web..."
      [] node = "FINAL_AGENT" -> "Finalizing..."
      [] OTHER -> ""

StatusMsg(node, is_good) ==
    CASE node = "REFORMULATE" -> "Understanding query..."
      [] node = "RETRIEVER" -> "Searching video..."
      [] node = "AGENT" -> "Analyzing..."
      [] node = "JUDGE" -> IF IsGood(is_good) THEN "Verified" ELSE "Refining answer..."
      [] node = "SEARCH_TAVILY" -> "Searching the web..."
      [] node = "FINAL_AGENT" -> "Finalizing..."
      [] OTHER -> ""

\* a generator that reports the web search as an error and goes on
EventOfAlarm(node, is_good) ==
    IF node = "GENERATE_ANSWER" THEN [type |-> "result", msg |-> "payload"]
    ELSE IF node = "SEARCH_TAVILY" THEN [type |-> "error", msg |-> "str(e)"]
    ELSE [type |-> "status", msg |-> StatusMsg(node, is_good)]

\* the event the generator yields after a node's update
EventOf(node, is_good) ==
    IF node = "GENERATE_ANSWER" THEN [type |-> "result", msg |-> "payload"]
    ELSE [type |-> "status", msg |-> StatusMsg(node, is_good)]

ErrorEvent == [type |-> "error", msg |-> "str(e)"]

IdleCall ==
    [pc |-> "idle", chat_id |-> 0, question |-> "", node |-> "START",
     trace |-> <<>>, events |-> <<>>, is_good |-> {}, has_context |-> FALSE,
     result_payload |-> <<>>, outcome |-> "", user_msg |-> 0, ai_msg |-> 0,
     state_messages |-> <<>>, base |-> 0, judged |-> 0, formatted |-> 0]

\* a generator that does not store the question
skip_user_message(msgs, id, chat_id, query) == msgs

\* Message(chat_id=chat_id, role="user", content=query); db.add; db.commit
save_user_message(msgs, id, chat_id, query) ==
    Append(msgs, [id |-> id, chat_id |-> chat_id, role |-> "user",
                  content |-> query, follow_up |-> <<>>])

\* an ai row whose follow_up column holds no JSON text
save_ai_message_plain(msgs, id, chat_id, payload) ==
    Append(msgs, [id |-> id, chat_id |-> chat_id, role |-> "ai",
                  content |-> payload.answer, follow_up |-> payload.follow_up])

\* ai_msg = Message(chat_id, role="ai", content=result_payload.get("answer", ""),
\*                  follow_up=json.dumps(result_payload.get("follow_up", [])))
save_ai_message(msgs, id, chat_id, payload) ==
    Append(msgs, [id |-> id, chat_id |-> chat_id, role |-> "ai",
                  content |-> payload.answer,
                  follow_up |-> json_dumps(payload.follow_up)])

\* a commit that also clears the stored title
touch_and_retitle(rows, chat_id, t) ==
    {IF c.id = chat_id THEN [c EXCEPT !.last_session = t, !.title = ""] ELSE c :
        c \in rows}

\* chat_obj.last_session = datetime.now(timezone.utc); db.commit()
touch_last_session(rows, chat_id, t) ==
    {IF c.id = chat_id THEN [c EXCEPT !.last_session = t] ELSE c : c \in rows}

\* what the provider behind a node does on one call: it answers, or the call
\* raises.  reformulate_query calls no provider when there is neither history
\* nor summary.
NodeOutcomes(node, has_context) ==
    LET ok == [raised |-> FALSE, is_good |-> {}, payload |-> <<>>]
        raise == [raised |-> TRUE, is_good |-> {}, payload |-> <<>>]
    IN CASE node = "REFORMULATE" -> IF has_context THEN {ok, raise} ELSE {ok}
         [] node = "JUDGE" -> {[ok EXCEPT !.is_good = {b}] : b \in BOOLEAN} \cup {raise}
         [] node = "GENERATE_ANSWER" ->
                {[ok EXCEPT !.payload = <<p>>] : p \in Payloads} \cup {raise}
         [] OTHER -> {ok, raise}

\* stream_chat(chat_id, user_input, user, db) up to the StreamingResponse it
\* returns: identity, ownership, get_chat_graph.  The calls the service accepts
\* are numbered in their order of arrival.
StreamChat(r, token, chat_id, question) ==
    /\ req[r].pc = "idle"
    /\ \A k \in 1..(r - 1) : req[k].pc # "idle"
    /\ LET auth == get_current_user(token)
           owned == OwnedChat(chat_id, auth.user_id)
       IN IF ~auth.ok
          THEN /\ resp' = Unauthorized("stream", token, chat_id)
               /\ vec_log' = NoVecOp
               /\ UNCHANGED <<now, dbVars, cacheVars, req, issued>>
          ELSE IF owned = {}
          THEN /\ resp' = NotFound("stream", token, chat_id)
               /\ vec_log' = NoVecOp
               /\ UNCHANGED <<now, dbVars, cacheVars, req, issued>>
          ELSE \E ext \in BuildOutcomes :
               LET chat_obj == CHOOSE c \in owned : TRUE
                   g == get_chat_graph(active_graphs, vector_store_cache,
                                       deleted_collections, nextVs, chat_id,
                                       chat_obj.url, ext)
               IN /\ g.next <= MaxBuilds + 1
                  /\ active_graphs' = g.graphs
                  /\ vector_store_cache' = g.cache
                  /\ deleted_collections' = g.deleted
                  /\ nextVs' = g.next
                  /\ vec_log' = g.log
                  /\ IF g.raised # "none"
                     THEN /\ resp' = Response("stream", token, chat_id, 500,
                                              "Internal Server Error", <<>>)
                          /\ req' = req
                     ELSE /\ resp' = Response("stream", token, chat_id, 200,
                                              "text/event-stream", <<>>)
                          /\ req' = [req EXCEPT ![r] =
                                       [IdleCall EXCEPT !.pc = "responding",
                                                        !.chat_id = chat_id,
                                                        !.question = question]]
                  /\ UNCHANGED <<now, dbVars, video_info_cache, summary_cache, issued>>
    /\ UNCHANGED <<fnVars, workers>>

\* event_generator() from its start to the pipeline: _load_chat_history runs
\* outside the try, so a summarization failure ends the generator with no
\* event; then the user message is committed and app.stream() opens on the
\* thread's checkpoint.  When the chat row has been deleted since the
\* ownership check, the commit of the user message raises inside the try.
GenStart(r) ==
    /\ req[r].pc = "responding"
    /\ \E llm \in SummaryOutcomes :
         LET cid == req[r].chat_id
             h == load_chat_history(messages, summary_cache, cid, llm)
         IN IF h.raised
            THEN /\ req' = [req EXCEPT ![r].pc = "closed", ![r].outcome = "aborted"]
                 /\ UNCHANGED <<messages, nextMsgId, summary_cache>>
            ELSE IF ~ForeignKeyHolds(chats, cid)
            THEN /\ summary_cache' = h.cache
                 /\ req' = [req EXCEPT ![r].pc = "closed", ![r].outcome = "error",
                                       ![r].events = Append(@, ErrorEvent)]
                 /\ UNCHANGED <<messages, nextMsgId>>
            ELSE /\ summary_cache' = h.cache
                 /\ messages' = save_user_message(messages, nextMsgId, cid,
                                                  req[r].question)
                 /\ nextMsgId' = nextMsgId + 1
                 /\ req' = [req EXCEPT ![r].pc = "streaming",
                                       ![r].user_msg = nextMsgId,
                                       ![r].is_good = active_graphs[cid].is_good,
                                       ![r].has_context =
                                           (h.recent # <<>> \/ h.summary # "")]
    /\ vec_log' = NoVecOp
    /\ UNCHANGED <<now, users, chats, nextChatId, video_info_cache, vecVars,
                   active_graphs, resp, issued>>
    /\ UNCHANGED <<fnVars, workers>>

\* inputs["messages"]: [HumanMessage(content=query)]
HumanMessage(query) == [type |-> "human", content |-> <<query>>]

\* a reducer that replaces the channel by the update
replace_messages(left, right) == right

\* AgentState.messages: Annotated[..., add_messages]: an update is appended
\* to the channel (every message of a turn is new, so none replaces an old one)
add_messages(left, right) == left \o right

\* nodes of which only generate_answer returns a message
NodeMessagesNoDraft(node, out) ==
    IF node = "GENERATE_ANSWER"
    THEN <<[type |-> "ai", content |-> <<"json", out.payload[1].answer>>]>>
    ELSE <<>>

\* the update a node returns for the messages channel: agent and final_agent
\* return the draft, generate_answer the JSON text of the Output object
NodeMessages(node, out) ==
    IF node \in {"AGENT", "FINAL_AGENT"}
    THEN <<[type |-> "ai", content |-> <<"draft", node>>]>>
    ELSE IF node = "GENERATE_ANSWER"
    THEN <<[type |-> "ai", content |-> <<"json", out.payload[1].answer>>]>>
    ELSE <<>>

\* one iteration of `for event in app.stream(inputs, config)`: the graph runs
\* its next node and the generator yields that node's event; an exception of
\* the node is caught by the except clause, which yields the error event.
\* The first iteration loads the checkpoint of the thread, adds the input to
\* it and saves it; every completed node saves the run's state as the
\* thread's checkpoint.  base is the number of messages the run found in the
\* checkpoint; judged and formatted are the positions of state['messages'][-1]
\* when judge and generate_answer read it.
NodeStep(r) ==
    /\ req[r].pc = "streaming"
    /\ LET node == NextNode(req[r].node, req[r].is_good)
           cid == req[r].chat_id
           first == req[r].node = "START"
           state == IF first
                    THEN add_messages(active_graphs[cid].messages,
                                      <<HumanMessage(req[r].question)>>)
                    ELSE req[r].state_messages
       IN /\ node # "END"
          /\ \E out \in NodeOutcomes(node, req[r].has_context) :
               IF out.raised
               THEN /\ req' = [req EXCEPT ![r].pc = "closed",
                                          ![r].outcome = "error",
                                          ![r].events = Append(@, ErrorEvent),
                                          ![r].state_messages = state]
                    /\ active_graphs' = IF first
                                        THEN [active_graphs EXCEPT
                                                ![cid].messages = state]
                                        ELSE active_graphs
               ELSE LET verdict == IF node = "JUDGE" THEN out.is_good
                                   ELSE req[r].is_good
                        after == add_messages(state, NodeMessages(node, out))
                    IN /\ req' = [req EXCEPT
                                    ![r].node = node,
                                    ![r].trace = Append(@, node),
                                    ![r].is_good = verdict,
                                    ![r].result_payload =
                                        IF node = "GENERATE_ANSWER" THEN out.payload
                                        ELSE @,
                                    ![r].events = Append(@, EventOf(node, verdict)),
                                    ![r].state_messages = after,
                                    ![r].base =
                                        IF first
                                        THEN Len(active_graphs[cid].messages)
                                        ELSE @,
                                    ![r].judged =
                                        IF node = "JUDGE" THEN Len(state) ELSE @,
                                    ![r].formatted =
                                        IF node = "GENERATE_ANSWER" THEN Len(state)
                                        ELSE @]
                       /\ active_graphs' = [active_graphs EXCEPT
                                              ![cid].is_good = verdict,
                                              ![cid].messages = after]
    /\ vec_log' = NoVecOp
    /\ UNCHANGED <<now, dbVars, video_info_cache, vecVars, summary_cache, resp,
                   issued>>
    /\ UNCHANGED <<fnVars, workers>>

\* the statements after the loop: the ai message and last_session are
\* committed when the run produced a result.  When the chat row has been
\* deleted meanwhile, the UPDATE of chat_obj matches no row, the flush raises
\* and nothing of it is stored; the except clause yields the error event.
GenFinish(r) ==
    /\ req[r].pc = "streaming"
    /\ NextNode(req[r].node, req[r].is_good) = "END"
    /\ IF req[r].result_payload # <<>> /\ ChatById(req[r].chat_id) = {}
       THEN /\ now' = now + 1
            /\ req' = [req EXCEPT ![r].pc = "closed", ![r].outcome = "error",
                                  ![r].events = Append(@, ErrorEvent)]
            /\ UNCHANGED <<messages, nextMsgId, chats>>
       ELSE IF req[r].result_payload # <<>>
       THEN /\ messages' = save_ai_message(messages, nextMsgId, req[r].chat_id,
                                           req[r].result_payload[1])
            /\ nextMsgId' = nextMsgId + 1
            /\ now' = now + 1
            /\ chats' = touch_last_session(chats, req[r].chat_id, now + 1)
            /\ req' = [req EXCEPT ![r].pc = "closed", ![r].outcome = "ok",
                                  ![r].ai_msg = nextMsgId]
       ELSE /\ req' = [req EXCEPT ![r].pc = "closed", ![r].outcome = "ok"]
            /\ UNCHANGED <<messages, nextMsgId, now, chats>>
    /\ vec_log' = NoVecOp
    /\ UNCHANGED <<users, nextChatId, cacheVars, resp, issued>>
    /\ UNCHANGED <<fnVars, workers>>

-----------------------------------------------------------------------------
(* routers/chat.py and routers/user.py: the chat endpoints.  Each is a plain  *)
(* `def` handler: one database transaction.                                   *)

NAMES == {"", "renamed"}

\* json.loads of a stored follow_up: the list, or a failure
RECURSIVE JsonItemsOk(_)
JsonItemsOk(t) ==
    \/ Len(t) = 1 /\ t[1] \notin {"[", "]", ","}
    \/ /\ Len(t) >= 3
       /\ t[1] \notin {"[", "]", ","}
       /\ t[2] = ","
       /\ JsonItemsOk(SubSeq(t, 3, Len(t)))

JsonOk(t) ==
    /\ Len(t) >= 2
    /\ t[1] = "["
    /\ t[Len(t)] = "]"
    /\ (Len(t) = 2 \/ JsonItemsOk(SubSeq(t, 2, Len(t) - 1)))

json_loads(t) == [i \in 1..((Len(t) - 1) \div 2) |-> t[2 * i]]

\* the follow_up of a ReturnMessage: [] when the column is empty or does not parse
parse_follow_up(t) == IF t # <<>> /\ JsonOk(t) THEN json_loads(t) ELSE <<>>

\* the body get_messages builds
messages_body(rows) ==
    [i \in 1..Len(rows) |->
       [id |-> rows[i].id, role |-> rows[i].role, content |-> rows[i].content,
        follow_up |-> parse_follow_up(rows[i].follow_up)]]

\* JSON texts that json.loads accepts and that are no array: null, a number,
\* a string, an object
JsonScalars == {"null", "5", "\"f1\"", "{}"}

JsonNonList(t) == Len(t) = 1 /\ t[1] \in JsonScalars

\* ReturnMessage(..., follow_up=follow_up, ...) with follow_up: list[str]:
\* pydantic raises ValidationError, which get_messages does not catch, when
\* json.loads returned something that is no list
ReturnMessageValidates(row) == ~JsonNonList(row.follow_up)

\* get_messages(chat_id, user, db) after the ownership check, on the rows of
\* the chat in created_at order
get_messages(rows) ==
    IF \A i \in 1..Len(rows) : ReturnMessageValidates(rows[i])
    THEN [status |-> 200, detail |-> "", body |-> messages_body(rows)]
    ELSE [status |-> 500, detail |-> "Internal Server Error", body |-> <<>>]

\* create_chat(chat, user, db) after the identity check: the response, the
\* chat table and the metadata cache it leaves
create_chat(rows, cache, id, t, user_id, url, name, ext) ==
    LET v == is_valid_youtube_url(cache, url, ext) IN
    IF ~v.valid
    THEN [status |-> 400, detail |-> "Invalid YouTube URL", chats |-> rows,
          cache |-> v.cache, new_chat |-> <<>>]
    ELSE LET yt_info == v.cache[url]
             chat_name == IF name # "" THEN name ELSE yt_info.title
             new_chat == ChatRow(id, user_id, url, chat_name, yt_info, t)
         IN [status |-> 201, detail |-> "", chats |-> rows \cup {new_chat},
             cache |-> v.cache, new_chat |-> <<new_chat>>]

\* the id the database gives a new chat row: one no row ever had (a sequence
\* or AUTOINCREMENT column), or the highest id in the table plus one (a plain
\* integer primary key), which is the id of a deleted chat when the newest chat
\* was deleted.  nextChatId counts the rows ever inserted.
NewChatIds(rows, next) ==
    {next,
     1 + (CHOOSE m \in {0} \cup {c.id : c \in rows} :
              \A c \in rows : c.id <= m)}

\* POST /chat/create
CreateChat(token, url, name) ==
    /\ LET auth == get_current_user(token) IN
       IF ~auth.ok
       THEN /\ resp' = Unauthorized("create_chat", token, 0)
            /\ UNCHANGED <<now, dbVars, video_info_cache>>
       ELSE \E ext \in MetaOutcomes, id \in NewChatIds(chats, nextChatId) :
            LET r == create_chat(chats, video_info_cache, id, now + 1,
                                 auth.user_id, url, name, ext)
            IN IF r.status = 400
               THEN /\ resp' = Response("create_chat", token, 0, r.status, r.detail,
                                        <<>>)
                    /\ UNCHANGED <<now, dbVars, video_info_cache>>
               ELSE /\ nextChatId <= MaxChats
                    /\ video_info_cache' = r.cache
                    /\ chats' = r.chats
                    /\ nextChatId' = nextChatId + 1
                    /\ now' = now + 1
                    /\ resp' = Response("create_chat", token, r.new_chat[1].id,
                                        r.status, r.detail,
                                        <<chat_to_return(r.new_chat[1])>>)
                    /\ UNCHANGED <<users, messages, nextMsgId>>
    /\ vec_log' = NoVecOp
    /\ UNCHANGED <<vecVars, active_graphs, summary_cache, req, issued>>
    /\ UNCHANGED <<fnVars, workers>>

\* create_chat is a plain `def`: FastAPI runs it on a threadpool worker, and
\* two workers interleave between the statements of is_valid_youtube_url
IdleWorker == [pc |-> "idle", url |-> "", name |-> "", user_id |-> 0, wrote |-> <<>>]

\* a store that replaces the whole cache by the one entry
cache_write_only(cache, url, metadata) == [u \in {url} |-> metadata]

\* _video_info_cache[url] = metadata
cache_write(cache, url, metadata) ==
    [u \in (DOMAIN cache) \cup {url} |-> IF u = url THEN metadata ELSE cache[u]]

\* a worker takes a request of an authenticated caller and runs
\* is_valid_youtube_url up to its lookups: the cache test and get_video_id
CreateBegin(w, token, url, name) ==
    /\ workers[w].pc = "idle"
    /\ get_current_user(token).ok
    /\ LET user_id == get_current_user(token).user_id IN
       IF url \in DOMAIN video_info_cache
       THEN /\ workers' = [workers EXCEPT ![w] =
                             [IdleWorker EXCEPT !.pc = "insert", !.url = url,
                                                !.name = name, !.user_id = user_id]]
            /\ resp' = resp
       ELSE IF get_video_id(url) = ""
       THEN /\ workers' = [workers EXCEPT ![w].pc = "done"]
            /\ resp' = Response("create_chat", token, 0, 400, "Invalid YouTube URL",
                                <<>>)
       ELSE /\ workers' = [workers EXCEPT ![w] =
                             [IdleWorker EXCEPT !.pc = "fetching", !.url = url,
                                                !.name = name, !.user_id = user_id]]
            /\ resp' = resp
    /\ vec_log' = NoVecOp
    /\ UNCHANGED <<now, dbVars, cacheVars, req, issued, fnVars>>

\* the lookups return and the worker stores what they gave
CreateFetch(w) ==
    /\ workers[w].pc = "fetching"
    /\ \E ext \in MetaOutcomes :
         LET url == workers[w].url
             metadata == is_valid_youtube_url(<<>>, url, ext).cache[url]
         IN /\ video_info_cache' = cache_write(video_info_cache, url, metadata)
            /\ workers' = [workers EXCEPT ![w].pc = "insert",
                                          ![w].wrote = <<metadata>>]
    /\ vec_log' = NoVecOp
    /\ UNCHANGED <<now, dbVars, vecVars, active_graphs, summary_cache, req, resp,
                   issued, fnVars>>

\* yt_info = _video_info_cache.get(chat.url), the new row, the response
CreateInsert(w, token) ==
    /\ workers[w].pc = "insert"
    /\ get_current_user(token).ok
    /\ get_current_user(token).user_id = workers[w].user_id
    /\ nextChatId <= MaxChats
    /\ \E ext \in MetaOutcomes, id \in NewChatIds(chats, nextChatId) :
         LET r == create_chat(chats, video_info_cache, id, now + 1,
                              workers[w].user_id, workers[w].url, workers[w].name,
                              ext)
         IN /\ chats' = r.chats
            /\ resp' = Response("create_chat", token, r.new_chat[1].id, r.status,
                                r.detail, <<chat_to_return(r.new_chat[1])>>)
    /\ nextChatId' = nextChatId + 1
    /\ now' = now + 1
    /\ workers' = [workers EXCEPT ![w].pc = "done"]
    /\ vec_log' = NoVecOp
    /\ UNCHANGED <<users, messages, nextMsgId, cacheVars, req, issued, fnVars>>

\* GET /chat/list
ListChats(token) ==
    /\ LET auth == get_current_user(token) IN
       IF ~auth.ok
       THEN resp' = Unauthorized("list_chats", token, 0)
       ELSE LET rows == SortDesc({c \in chats : c.user_id = auth.user_id}) IN
            resp' = Response("list_chats", token, 0, 200, "",
                             [i \in 1..Len(rows) |-> chat_to_return(rows[i])])
    /\ vec_log' = NoVecOp
    /\ UNCHANGED <<now, dbVars, cacheVars, req, issued>>
    /\ UNCHANGED <<fnVars, workers>>

\* GET /user/chats
GetUserChats(token) ==
    /\ LET auth == get_current_user(token) IN
       IF ~auth.ok
       THEN resp' = Unauthorized("get_user_chats", token, 0)
       ELSE LET rows == SortDesc({c \in chats : c.user_id = auth.user_id}) IN
            resp' = Response("get_user_chats", token, 0, 200, "",
                             [i \in 1..Len(rows) |->
                                [id |-> rows[i].id, name |-> rows[i].name,
                                 url |-> rows[i].url,
                                 created_at |-> rows[i].created_at,
                                 last_session |-> rows[i].last_session]])
    /\ vec_log' = NoVecOp
    /\ UNCHANGED <<now, dbVars, cacheVars, req, issued>>
    /\ UNCHANGED <<fnVars, workers>>

\* GET /user/me
GetCurrentUserInfo(token) ==
    /\ LET auth == get_current_user(token) IN
       IF ~auth.ok
       THEN resp' = Unauthorized("me", token, 0)
       ELSE resp' = Response("me", token, 0, 200, "",
                             <<[id |-> auth.user_id, username |-> token.sub]>>)
    /\ vec_log' = NoVecOp
    /\ UNCHANGED <<now, dbVars, cacheVars, req, issued>>
    /\ UNCHANGED <<fnVars, workers>>

\* the body shared by DELETE /chat/delete/{chat_id} and DELETE /user/chats/{chat_id}
delete_chat(op, token, chat_id) ==
    /\ LET auth == get_current_user(token) IN
       IF ~auth.ok
       THEN /\ resp' = Unauthorized(op, token, chat_id)
            /\ UNCHANGED <<chats, messages>>
       ELSE IF OwnedChat(chat_id, auth.user_id) = {}
       THEN /\ resp' = NotFound(op, token, chat_id)
            /\ UNCHANGED <<chats, messages>>
       ELSE /\ chats' = chats \ OwnedChat(chat_id, auth.user_id)
            /\ messages' = CascadeDelete(messages, chat_id)
            /\ resp' = Response(op, token, chat_id, 200,
                                "Chat deleted successfully", <<>>)
    /\ vec_log' = NoVecOp
    /\ UNCHANGED <<now, users, nextChatId, nextMsgId, cacheVars, req, issued>>
    /\ UNCHANGED <<fnVars, workers>>

\* DELETE /chat/delete/{chat_id}
DeleteChat(token, chat_id) == delete_chat("delete_chat", token, chat_id)

\* DELETE /user/chats/{chat_id}
UserDeleteChat(token, chat_id) == delete_chat("user_delete_chat", token, chat_id)

\* GET /chat/get/{chat_id}
GetChat(token, chat_id) ==
    /\ LET auth == get_current_user(token) IN
       IF ~auth.ok
       THEN resp' = Unauthorized("get_chat", token, chat_id)
       ELSE IF OwnedChat(chat_id, auth.user_id) = {}
       THEN resp' = NotFound("get_chat", token, chat_id)
       ELSE resp' = Response("get_chat", token, chat_id, 200, "",
                             <<chat_to_return(CHOOSE c \in
                                   OwnedChat(chat_id, auth.user_id) : TRUE)>>)
    /\ vec_log' = NoVecOp
    /\ UNCHANGED <<now, dbVars, cacheVars, req, issued>>
    /\ UNCHANGED <<fnVars, workers>>

\* GET /chat/{chat_id}/messages
GetMessages(token, chat_id) ==
    /\ LET auth == get_current_user(token) IN
       IF ~auth.ok
       THEN resp' = Unauthorized("get_messages", token, chat_id)
       ELSE IF OwnedChat(chat_id, auth.user_id) = {}
       THEN resp' = NotFound("get_messages", token, chat_id)
       ELSE LET r == get_messages(MessagesOf(messages, chat_id)) IN
            resp' = Response("get_messages", token, chat_id, r.status, r.detail,
                             r.body)
    /\ vec_log' = NoVecOp
    /\ UNCHANGED <<now, dbVars, cacheVars, req, issued>>
    /\ UNCHANGED <<fnVars, workers>>

\* PUT /chat/update_name/{chat_id}
UpdateChatName(token, chat_id, new_name) ==
    /\ LET auth == get_current_user(token) IN
       IF ~auth.ok
       THEN /\ resp' = Unauthorized("update_chat_name", token, chat_id)
            /\ chats' = chats
       ELSE IF OwnedChat(chat_id, auth.user_id) = {}
       THEN /\ resp' = NotFound("update_chat_name", token, chat_id)
            /\ chats' = chats
       ELSE LET chat == CHOOSE c \in OwnedChat(chat_id, auth.user_id) : TRUE
                renamed == [chat EXCEPT !.name = new_name]
            IN /\ chats' = (chats \ {chat}) \cup {renamed}
               /\ resp' = Response("update_chat_name", token, chat_id, 200, "",
                                   <<chat_to_return(renamed)>>)
    /\ vec_log' = NoVecOp
    /\ UNCHANGED <<now, users, messages, nextChatId, nextMsgId, cacheVars, req,
                   issued>>
    /\ UNCHANGED <<fnVars, workers>>

-----------------------------------------------------------------------------
(* routers/auth.py: register and login *)

PASSWORDS == {"pw-1", "pw-2"}

\* pwd_context.hash(password): the stored value is the bcrypt text, never the
\* password
get_password_hash(password) == "bcrypt$" \o password

\* a password check that accepts every password
verify_any_password(plain_password, hashed_password) == TRUE

\* pwd_context.verify(plain_password, hashed_password)
verify_password(plain_password, hashed_password) ==
    hashed_password = get_password_hash(plain_password)

UserRow(id, username, password) ==
    [id |-> id, username |-> username, hashed_password |-> get_password_hash(password)]

\* a registration that does not look for the username first
register_always(rows, username, password) ==
    [users |-> rows \cup {UserRow(Cardinality(rows) + 1, username, password)},
     status |-> 200, detail |-> "User registered successfully"]

\* register(user, db): the user table and the response it leaves
register(rows, username, password) ==
    IF {u \in rows : u.username = username} # {}
    THEN [users |-> rows, status |-> 400, detail |-> "Username already registered"]
    ELSE [users |-> rows \cup {UserRow(Cardinality(rows) + 1, username, password)},
          status |-> 200, detail |-> "User registered successfully"]

\* POST /auth/register
Register(username, password) ==
    /\ LET r == register(users, username, password) IN
         /\ users' = r.users
         /\ resp' = Response("register", MissingToken, 0, r.status, r.detail, <<>>)
    /\ vec_log' = NoVecOp
    /\ UNCHANGED <<now, chats, messages, nextChatId, nextMsgId, cacheVars, req, issued>>
    /\ UNCHANGED <<fnVars, workers>>

\* login(user_data, db): the response, with the token when there is one
login(rows, username, password, t) ==
    LET found == {u \in rows : u.username = username} IN
    IF found = {} \/ ~verify_password(password,
                                      (CHOOSE u \in found : TRUE).hashed_password)
    THEN [ok |-> FALSE, status |-> 401, detail |-> "Incorrect username or password",
          body |-> <<>>]
    ELSE LET user == CHOOSE u \in found : TRUE IN
         [ok |-> TRUE, status |-> 200, detail |-> "bearer",
          body |-> <<create_access_token(user.username, t)>>]

\* POST /auth/token
Login(username, password) ==
    /\ LET r == login(users, username, password, now) IN
       /\ resp' = Response("login", MissingToken, 0, r.status, r.detail, r.body)
       /\ IF r.ok
          THEN LET grant == [token |-> r.body[1], at |-> now, username |-> username]
               IN /\ Cardinality(issued \cup {grant}) <= MaxTokens
                  /\ issued' = issued \cup {grant}
          ELSE issued' = issued
    /\ vec_log' = NoVecOp
    /\ UNCHANGED <<now, dbVars, cacheVars, req>>
    /\ UNCHANGED <<fnVars, workers>>

\* time passes
Tick ==
    /\ now + TickMinutes <= MaxTime
    /\ now' = now + TickMinutes
    /\ vec_log' = NoVecOp
    /\ UNCHANGED <<dbVars, cacheVars, req, resp, issued>>
    /\ UNCHANGED <<fnVars, workers>>

-----------------------------------------------------------------------------
(* Direct calls of the cache functions *)

GetVectorStore(url) ==
    /\ \E ext \in BuildOutcomes :
         LET g == get_vector_store(vector_store_cache, deleted_collections,
                                   nextVs, url, ext) IN
         /\ g.next <= MaxBuilds + 1
         /\ vector_store_cache' = g.cache
         /\ deleted_collections' = g.deleted
         /\ nextVs' = g.next
         /\ vec_log' = [op |-> "get", url |-> url, outcome |-> g.outcome]
    /\ UNCHANGED <<now, dbVars, video_info_cache, active_graphs, summary_cache,
                   req, resp, issued>>
    /\ UNCHANGED <<fnVars, workers>>

\* get_vector_store(url) for a video whose transcript is the empty string
GetVectorStoreEmpty(url) ==
    /\ \E ext \in EmptyTranscriptOutcomes :
         LET g == get_vector_store(vector_store_cache, deleted_collections,
                                   nextVs, url, ext) IN
         /\ g.next <= MaxBuilds + 1
         /\ vector_store_cache' = g.cache
         /\ deleted_collections' = g.deleted
         /\ nextVs' = g.next
         /\ vec_log' = [op |-> "get_empty", url |-> url, outcome |-> g.outcome]
    /\ UNCHANGED <<now, dbVars, video_info_cache, active_graphs, summary_cache,
                   req, resp, issued>>
    /\ UNCHANGED <<fnVars, workers>>

ReleaseVectorStore(url) ==
    /\ LET r == release_vector_store(vector_store_cache, deleted_collections, url) IN
         /\ vector_store_cache' = r.cache
         /\ deleted_collections' = r.deleted
         /\ vec_log' = [op |-> "release", url |-> url, outcome |-> r.outcome]
    /\ UNCHANGED <<now, dbVars, video_info_cache, active_graphs, summary_cache,
                   req, resp, issued, nextVs>>
    /\ UNCHANGED <<fnVars, workers>>

-----------------------------------------------------------------------------
(* Direct calls of the node functions *)

\* the sequences over S of length at most n
SeqsUpTo(S, n) == UNION {[1..k -> S] : k \in 0..n}

\* what similarity_search_with_score can return: chunks with their scores
Candidates == {[page_content |-> "chunk-a", score |-> 90],
               [page_content |-> "chunk-b", score |-> 70],
               [page_content |-> "chunk-c", score |-> 65],
               [page_content |-> "chunk-d", score |-> 50],
               [page_content |-> "chunk-e", score |-> 20],
               [page_content |-> "chunk-f", score |-> 70]}

RetrieverInputs ==
    [fn : {"retriever_tool"}, question : {"q1"}, reformulated_query : {"", "rq"},
     results : SeqsUpTo(Candidates, MaxResults)]

\* a stored history of n messages, numbered in created_at order
History(n) ==
    [i \in 1..n |-> [role |-> IF i % 2 = 1 THEN "user" ELSE "ai", content |-> i]]

ContextInputs ==
    [fn : {"build_chat_context"}, chat_history : {History(n) : n \in 0..MaxHistory},
     summary : {"", "summary-0"}, llm : SummaryOutcomes]

\* the RETRIEVER node runs on a state and a search result
RetrieverTool ==
    /\ fn_args.fn = "retriever_tool"
    /\ fn_result = <<>>
    /\ fn_result' = <<retriever_tool(fn_args.question, fn_args.reformulated_query,
                                     fn_args.results)>>
    /\ UNCHANGED <<now, dbVars, cacheVars, req, resp, issued, vec_log, fn_args,
                   workers>>

\* _load_chat_history hands a history and the cached summary to the buffer
BuildChatContext ==
    /\ fn_args.fn = "build_chat_context"
    /\ fn_result = <<>>
    /\ fn_result' = <<build_chat_context(fn_args.chat_history, fn_args.summary,
                                         fn_args.llm)>>
    /\ UNCHANGED <<now, dbVars, cacheVars, req, resp, issued, vec_log, fn_args,
                   workers>>

-----------------------------------------------------------------------------
(* States the service can be in when a run starts *)

\* alice and bob are registered
RegisteredUsers == {UserRow(1, "alice", "pw-1"), UserRow(2, "bob", "pw-2")}

\* the rows n completed turns leave in a chat, with ids from first on
TurnRows(chat_id, first, n) ==
    [i \in 1..(2 * n) |->
       IF i % 2 = 1
       THEN [id |-> first + i - 1, chat_id |-> chat_id, role |-> "user",
             content |-> "q1", follow_up |-> <<>>]
       ELSE [id |-> first + i - 1, chat_id |-> chat_id, role |-> "ai",
             content |-> "answer-1", follow_up |-> json_dumps(<<"f1", "f2", "f3">>)]]

\* the caches of a process that has just started
InitCaches ==
    /\ video_info_cache = <<>>
    /\ vector_store_cache = <<>>
    /\ deleted_collections = {}
    /\ nextVs = 1
    /\ active_graphs = <<>>
    /\ summary_cache = <<>>
    /\ vec_log = NoVecOp

InitCalls ==
    /\ req = [r \in 1..MaxCalls |-> IdleCall]
    /\ resp = NoResponse
    /\ workers = [w \in 1..MaxWorkers |-> IdleWorker]

\* no node function has been called directly
InitNoCall ==
    /\ fn_args = <<>>
    /\ fn_result = <<>>

\* an empty database, a process that has just started
InitEmptyStore ==
    /\ now = 0
    /\ users = {}
    /\ chats = {}
    /\ messages = <<>>
    /\ nextChatId = 1
    /\ nextMsgId = 1
    /\ issued = {}
    /\ InitCaches
    /\ InitCalls

InitEmpty == InitEmptyStore /\ InitNoCall

\* alice holds a token from a login at time 0 and owns two chats: chat 1 on
\* video A with BUFFER_SIZE / 2 completed turns, chat 2 on video B with none;
\* the process has restarted since, so every cache is empty
AliceToken == create_access_token("alice", 0)

InitStream ==
    /\ now = 1
    /\ users = RegisteredUsers
    /\ chats = {ChatRow(1, 1, "A", "yt-title", resolve_metadata("A", "ytdlp"), 0),
                ChatRow(2, 1, "B", "my chat", resolve_metadata("B", "fallback"), 1)}
    /\ messages = TurnRows(1, 1, BUFFER_SIZE \div 2)
    /\ nextChatId = 3
    /\ nextMsgId = BUFFER_SIZE + 1
    /\ issued = {[token |-> AliceToken, at |-> 0, username |-> "alice"]}
    /\ InitCaches
    /\ InitCalls
    /\ InitNoCall

\* bob logged in at time 0 and again at time 90, and it is now 100: his first
\* token has expired.  alice owns chat 1 and bob chat 2, one turn each; the
\* process has restarted since.
BobExpired == create_access_token("bob", 0)
BobToken == create_access_token("bob", 90)

\* a token signed with the server's secret whose user row does not exist
GhostToken == SignedToken("ghost", 190)

BadTokens == {MissingToken, MalformedToken, ForgedToken("bob", 190), BobExpired,
              GhostToken}

InitApi ==
    /\ now = 100
    /\ users = RegisteredUsers
    /\ chats = {ChatRow(1, 1, "A", "yt-title", resolve_metadata("A", "ytdlp"), 1),
                ChatRow(2, 2, "B", "my chat", resolve_metadata("B", "fallback"), 2)}
    /\ messages = TurnRows(1, 1, 1) \o TurnRows(2, 3, 1)
    /\ nextChatId = 3
    /\ nextMsgId = 5
    /\ issued = {[token |-> BobExpired, at |-> 0, username |-> "bob"],
                 [token |-> BobToken, at |-> 90, username |-> "bob"]}
    /\ InitCaches
    /\ InitCalls
    /\ InitNoCall

\* what the follow_up column of a row can hold: nothing, the text json.dumps
\* wrote, the empty array, a text cut short, a text that is no JSON, and JSON
\* texts that are no array
FollowUpTexts ==
    {<<>>, json_dumps(<<"f1", "f2", "f3">>), json_dumps(<<>>), <<"[", "f1", ",">>,
     <<"oops">>} \cup {<<v>> : v \in JsonScalars}

\* the state of InitApi, with bob's chat holding one question and two ai rows
\* whose follow_up column holds any of these texts
InitMessages ==
    /\ now = 100
    /\ users = RegisteredUsers
    /\ chats = {ChatRow(1, 1, "A", "yt-title", resolve_metadata("A", "ytdlp"), 1),
                ChatRow(2, 2, "B", "my chat", resolve_metadata("B", "fallback"), 2)}
    /\ \E f1, f2 \in FollowUpTexts :
          messages = TurnRows(1, 1, 1) \o
                     <<[id |-> 3, chat_id |-> 2, role |-> "user", content |-> "q1",
                        follow_up |-> <<>>],
                       [id |-> 4, chat_id |-> 2, role |-> "ai", content |-> "answer-1",
                        follow_up |-> f1],
                       [id |-> 5, chat_id |-> 2, role |-> "ai", content |-> "answer-2",
                        follow_up |-> f2]>>
    /\ nextChatId = 3
    /\ nextMsgId = 6
    /\ issued = {[token |-> BobToken, at |-> 90, username |-> "bob"]}
    /\ InitCaches
    /\ InitCalls
    /\ InitNoCall

\* the pipeline of a chat after its first turn, which the judge accepted
GraphAfterTurn(url, vs) ==
    [url |-> url, vs |-> vs, is_good |-> {TRUE},
     messages |-> <<HumanMessage("q1"),
                    [type |-> "ai", content |-> <<"draft", "AGENT">>],
                    [type |-> "ai", content |-> <<"json", "answer-1">>]>>]

\* the pipeline of bob's chat 2 after its first turn
BobGraph == GraphAfterTurn("B", 1)

\* alice owns four chats on four videos; since the process started, chats 1,
\* 2 and 3 have had one turn each, at times 1, 2 and 3, so the vector-index
\* cache is full, and chat 4 has had none
InitFull ==
    /\ now = 4
    /\ users = RegisteredUsers
    /\ chats = {[ChatRow(1, 1, "A", "yt-title", resolve_metadata("A", "ytdlp"), 0)
                    EXCEPT !.last_session = 1],
                [ChatRow(2, 1, "B", "yt-title", resolve_metadata("B", "ytdlp"), 0)
                    EXCEPT !.last_session = 2],
                [ChatRow(3, 1, "C", "yt-title", resolve_metadata("C", "ytdlp"), 0)
                    EXCEPT !.last_session = 3],
                ChatRow(4, 1, "D", "yt-title", resolve_metadata("D", "ytdlp"), 0)}
    /\ messages = TurnRows(1, 1, 1) \o TurnRows(2, 3, 1) \o TurnRows(3, 5, 1)
    /\ nextChatId = 5
    /\ nextMsgId = 7
    /\ issued = {[token |-> AliceToken, at |-> 0, username |-> "alice"]}
    /\ video_info_cache = <<>>
    /\ vector_store_cache = <<[url |-> "A", vs |-> 1], [url |-> "B", vs |-> 2],
                              [url |-> "C", vs |-> 3]>>
    /\ deleted_collections = {}
    /\ nextVs = 4
    /\ active_graphs = (1 :> GraphAfterTurn("A", 1)) @@ (2 :> GraphAfterTurn("B", 2))
                          @@ (3 :> GraphAfterTurn("C", 3))
    /\ summary_cache = <<>>
    /\ vec_log = NoVecOp
    /\ InitCalls
    /\ InitNoCall

\* alice owns chat 1 on video A with two messages more than the buffer holds.
\* Since the process restarted, bob has created chat 2 on video B and completed
\* its first turn: the metadata of B, the vector index of B and the pipeline of
\* chat 2 are cached; nothing of chat 1 is.
InitRace ==
    /\ now = 2
    /\ users = RegisteredUsers
    /\ chats = {ChatRow(1, 1, "A", "yt-title", resolve_metadata("A", "ytdlp"), 0),
                [ChatRow(2, 2, "B", "my chat", resolve_metadata("B", "fallback"), 1)
                    EXCEPT !.last_session = 2]}
    /\ messages = TurnRows(1, 1, BUFFER_SIZE \div 2 + 1) \o
                  TurnRows(2, BUFFER_SIZE + 3, 1)
    /\ nextChatId = 3
    /\ nextMsgId = BUFFER_SIZE + 5
    /\ issued = {[token |-> AliceToken, at |-> 0, username |-> "alice"]}
    /\ video_info_cache = cache_write(<<>>, "B", resolve_metadata("B", "fallback"))
    /\ vector_store_cache = <<[url |-> "B", vs |-> 1]>>
    /\ deleted_collections = {}
    /\ nextVs = 2
    /\ active_graphs = (2 :> BobGraph)
    /\ summary_cache = <<>>
    /\ vec_log = NoVecOp
    /\ InitCalls
    /\ InitNoCall

\* a node function is about to be called on one of its inputs
InitNodes ==
    /\ InitEmptyStore
    /\ fn_args \in RetrieverInputs \cup ContextInputs
    /\ fn_result = <<>>

-----------------------------------------------------------------------------
(* Specifications *)

\* no stream of the owner is open
NoOpenStream == \A k \in 1..MaxCalls : req[k].pc \in {"idle", "closed"}

\* the cache functions of agents.py called one after another
NextVec ==
    \E url \in URLS : GetVectorStore(url) \/ ReleaseVectorStore(url)

SpecVec == InitEmpty /\ [][NextVec]_vars

\* the owner's stream calls on her oldest chat and on the chat that has had no
\* turn yet, interleaved at their yields
NextFull ==
    \E r \in 1..MaxCalls :
        \/ \E chat_id \in {1, 4} : StreamChat(r, AliceToken, chat_id, "q1")
        \/ GenStart(r)
        \/ NodeStep(r)
        \/ GenFinish(r)

SpecFull == InitFull /\ [][NextFull]_vars

\* alice streams on her chat 1 and bob on his chat 2, interleaved at the yields
NextPair ==
    \E r \in 1..MaxCalls :
        \/ StreamChat(r, AliceToken, 1, "q1")
        \/ StreamChat(r, create_access_token("bob", 0), 2, "q2")
        \/ GenStart(r)
        \/ NodeStep(r)
        \/ GenFinish(r)

SpecPair == InitRace /\ [][NextPair]_vars

\* get_vector_store called on videos with a transcript and on videos whose
\* transcript is empty
NextEmpty ==
    \E url \in URLS : GetVectorStore(url) \/ GetVectorStoreEmpty(url)

SpecEmpty == InitEmpty /\ [][NextEmpty]_vars

\* stream calls of the owner on her two chats, interleaved at their yields
NextStream ==
    \E r \in 1..MaxCalls :
        \/ \E chat_id \in {1, 2}, question \in QUESTIONS :
               StreamChat(r, AliceToken, chat_id, question)
        \/ GenStart(r)
        \/ NodeStep(r)
        \/ GenFinish(r)

SpecStream == InitStream /\ [][NextStream]_vars

\* the owner's stream calls when she waits for the end of each stream before
\* she sends the next question
NextTurns ==
    \E r \in 1..MaxCalls :
        \/ \E chat_id \in {1, 2}, question \in QUESTIONS :
               NoOpenStream /\ StreamChat(r, AliceToken, chat_id, question)
        \/ GenStart(r)
        \/ NodeStep(r)
        \/ GenFinish(r)

SpecTurns == InitStream /\ [][NextTurns]_vars

\* the same calls when every provider call returns or raises and the client
\* keeps reading the stream: the generator of an open stream is resumed
FairStream ==
    \A r \in 1..MaxCalls :
        WF_vars(GenStart(r)) /\ WF_vars(NodeStep(r)) /\ WF_vars(GenFinish(r))

SpecStreamFair == InitStream /\ [][NextStream]_vars /\ FairStream

\* the owner's stream calls while she also deletes her chats
NextDelete ==
    \/ NextStream
    \/ \E chat_id \in {1, 2} : DeleteChat(AliceToken, chat_id)

SpecDelete == InitStream /\ [][NextDelete]_vars

\* no stream is open on the chat
NoOpenStreamOn(chat_id) ==
    \A k \in 1..MaxCalls : req[k].pc \in {"idle", "closed"} \/ req[k].chat_id # chat_id

\* the owner streams on her two chats, one turn at a time on each, and reads
\* her list while she or bob, who logged in at time 0 as well, creates a chat
\* on the same video
NextOwner ==
    \/ \E r \in 1..MaxCalls :
          \/ \E chat_id \in {1, 2} :
                NoOpenStreamOn(chat_id) /\ StreamChat(r, AliceToken, chat_id, "q1")
          \/ GenStart(r)
          \/ NodeStep(r)
          \/ GenFinish(r)
    \/ ListChats(AliceToken)
    \/ GetUserChats(AliceToken)
    \/ \E token \in {AliceToken, create_access_token("bob", 0)} :
          CreateChat(token, "A", "")

SpecOwner == InitStream /\ [][NextOwner]_vars

\* the life of chat 1: its owner renames it, reads it, its messages and her
\* list, runs one turn after another on her chats and creates another chat on
\* the same video
NextChat ==
    \/ \E r \in 1..MaxCalls :
          \/ \E chat_id \in {1, 2} :
                NoOpenStream /\ StreamChat(r, AliceToken, chat_id, "q1")
          \/ GenStart(r)
          \/ NodeStep(r)
          \/ GenFinish(r)
    \/ ListChats(AliceToken)
    \/ CreateChat(AliceToken, "A", "")
    \/ UpdateChatName(AliceToken, 1, "renamed")
    \/ GetChat(AliceToken, 1)
    \/ GetMessages(AliceToken, 1)

SpecChat == InitStream /\ [][NextChat]_vars

\* the owner creates and deletes chats and opens streams on whatever id she
\* holds; the streams' generators are not run here
NextGraphs ==
    \/ \E r \in 1..MaxCalls, chat_id \in 1..MaxChats :
          StreamChat(r, AliceToken, chat_id, "q1")
    \/ \E chat_id \in 1..MaxChats : DeleteChat(AliceToken, chat_id)
    \/ \E url \in {"A", "C"} : CreateChat(AliceToken, url, "")

SpecGraphs == InitStream /\ [][NextGraphs]_vars

\* requests that populate the same cache keys at the same time: create_chat
\* on one new video by every worker, and first messages on chat 1, each up to
\* the point where its caches are filled (the pipeline run is left out)
NextRace ==
    \/ \E w \in 1..MaxWorkers :
          \/ \E url \in {"C", BadUrl} : CreateBegin(w, AliceToken, url, "")
          \/ CreateFetch(w)
          \/ CreateInsert(w, AliceToken)
    \/ \E r \in 1..MaxCalls :
          \/ StreamChat(r, AliceToken, 1, "q1")
          \/ GenStart(r)

SpecRace == InitRace /\ [][NextRace]_vars

\* on his chat, on alice's chat and on ids no chat has
NextApi ==
    \E token \in {BobToken} \cup BadTokens :
        \/ \E url \in {"C", BadUrl}, name \in NAMES : CreateChat(token, url, name)
        \/ ListChats(token)
        \/ GetUserChats(token)
        \/ GetCurrentUserInfo(token)
        \/ \E chat_id \in 1..MaxChats :
              \/ DeleteChat(token, chat_id)
              \/ UserDeleteChat(token, chat_id)
              \/ GetChat(token, chat_id)
              \/ GetMessages(token, chat_id)
              \/ UpdateChatName(token, chat_id, "renamed")
              \/ StreamChat(1, token, chat_id, "q1")

SpecApi == InitApi /\ [][NextApi]_vars

\* registration, login and identity resolution while time passes
NextAuth ==
    \/ \E username \in USERNAMES, password \in PASSWORDS :
          Register(username, password) \/ Login(username, password)
    \/ \E token \in {k.token : k \in issued} \cup {MissingToken, MalformedToken} :
          GetCurrentUserInfo(token)
    \/ Tick

SpecAuth == InitEmpty /\ [][NextAuth]_vars

\* bob reads the messages of every chat id
NextMessages == \E chat_id \in 1..MaxChats : GetMessages(BobToken, chat_id)

SpecMessages == InitMessages /\ [][NextMessages]_vars

\* the RETRIEVER node and the history buffer, each on every input
NextNodes == RetrieverTool \/ BuildChatContext

SpecNodes == InitNodes /\ [][NextNodes]_vars

-----------------------------------------------------------------------------
(* Properties of the vector-index cache, checked under SpecVec *)

\* the entries of a cache, without their order
Entries(cache) == {cache[i] : i \in 1..Len(cache)}

\* the entry built earliest among those cached: store ids grow with every build
Earliest(cache) ==
    CHOOSE e \in Entries(cache) : \A f \in Entries(cache) : e.vs <= f.vs

\* C1: in every reachable state, after any sequence of get_vector_store and
\* release_vector_store calls, the vector-index cache holds at most 3 entries
C1_CacheAtMostThree == Len(vector_store_cache) <= 3

\* a build has just evicted from a full cache, which is full again
C1_Witness ==
    /\ Len(vector_store_cache) = 3
    /\ vec_log.op = "get" /\ vec_log.outcome = "built"
    /\ deleted_collections # {}

\* C2: a build for an uncached URL on a cache of 3 removes exactly the entry
\* inserted earliest among those cached and releases its index; a hit removes
\* nothing and leaves the next entry to evict the same; A, B, C, D built in
\* that order leave exactly B, C, D
C2_FifoEviction ==
    [][/\ (vec_log'.op = "get" /\ vec_log'.outcome = "built"
              /\ Len(vector_store_cache) = 3)
          => /\ Entries(vector_store_cache') =
                    (Entries(vector_store_cache) \ {Earliest(vector_store_cache)})
                        \cup {[url |-> vec_log'.url, vs |-> nextVs]}
             /\ Len(vector_store_cache') = 3
             /\ deleted_collections' =
                    deleted_collections \cup {Earliest(vector_store_cache).vs}
       /\ (vec_log'.op = "get" /\ vec_log'.outcome = "hit")
          => /\ Entries(vector_store_cache') = Entries(vector_store_cache)
             /\ deleted_collections' = deleted_collections
             /\ Earliest(vector_store_cache') = Earliest(vector_store_cache)
       /\ (CachedUrls(vector_store_cache) = <<"A", "B", "C">>
              /\ vec_log' = [op |-> "get", url |-> "D", outcome |-> "built"])
          => CachedUrls(vector_store_cache') = <<"B", "C", "D">>]_vars

\* A, B, C, D were built in that order and D's build has just evicted A
C2_Witness ==
    /\ CachedUrls(vector_store_cache) = <<"B", "C", "D">>
    /\ vec_log = [op |-> "get", url |-> "D", outcome |-> "built"]
    /\ deleted_collections = {1}
    /\ nextVs = 5

-----------------------------------------------------------------------------
(* Properties of the stream endpoint, checked under SpecStream *)

PathGood == <<"REFORMULATE", "RETRIEVER", "AGENT", "JUDGE", "GENERATE_ANSWER">>

PathFallback == <<"REFORMULATE", "RETRIEVER", "AGENT", "JUDGE", "SEARCH_TAVILY",
                  "FINAL_AGENT", "GENERATE_ANSWER">>

IsPrefix(s, t) == Len(s) <= Len(t) /\ s = SubSeq(t, 1, Len(s))

\* the stored row with this id, as a set
RowsWithId(msgs, id) == {i \in 1..Len(msgs) : msgs[i].id = id}

\* the row of the question of call r is stored in its chat
QuestionStored(r) ==
    \E i \in RowsWithId(messages, req[r].user_msg) :
        /\ messages[i].chat_id = req[r].chat_id
        /\ messages[i].role = "user"
        /\ messages[i].content = req[r].question

\* C3: every run executes REFORMULATE, RETRIEVER, AGENT, JUDGE in that order;
\* with the verdict is_good = true it goes from JUDGE to GENERATE_ANSWER and
\* visits neither SEARCH_TAVILY nor FINAL_AGENT; with is_good = false or no
\* verdict it visits SEARCH_TAVILY, FINAL_AGENT, GENERATE_ANSWER in that order
C3_NodeOrder ==
    /\ NextNode("JUDGE", {}) = "SEARCH_TAVILY"
    /\ \A r \in 1..MaxCalls :
         LET t == req[r].trace IN
         /\ IsPrefix(t, PathGood) \/ IsPrefix(t, PathFallback)
         /\ Len(t) > 4 =>
               /\ req[r].is_good = {TRUE} => IsPrefix(t, PathGood)
               /\ req[r].is_good # {TRUE} => IsPrefix(t, PathFallback)
         /\ req[r].outcome = "ok" => t \in {PathGood, PathFallback}

\* a run whose judge said no has completed through the web search
C3_Witness ==
    \E r \in 1..MaxCalls :
        /\ req[r].outcome = "ok"
        /\ req[r].is_good = {FALSE}
        /\ req[r].trace = PathFallback

\* C4: for a stream call that passed the ownership check the user message with
\* the question is committed before the first node executes, and it is still
\* stored after a node has raised and the call has ended
C4_UserMessageFirst ==
    \A r \in 1..MaxCalls :
        (req[r].pc = "streaming" \/ req[r].trace # <<>> \/ req[r].outcome = "error")
            => QuestionStored(r)

\* a node has raised in the middle of a run and the question is stored
C4_Witness ==
    \E r \in 1..MaxCalls :
        /\ req[r].pc = "closed"
        /\ req[r].outcome = "error"
        /\ req[r].trace = <<"REFORMULATE", "RETRIEVER">>
        /\ QuestionStored(r)

\* user, ai, user, ai, ... beginning with user and ending with ai
Alternates(rows) ==
    /\ Len(rows) % 2 = 0
    /\ \A i \in 1..Len(rows) : rows[i].role = (IF i % 2 = 1 THEN "user" ELSE "ai")

\* C5: at the moment a stream request completes successfully, the messages of
\* its chat in creation order alternate user, ai, user, ai, ...
C5_AlternationAtSuccess ==
    [][\A r \in 1..MaxCalls :
          (req[r].outcome # "ok" /\ req'[r].outcome = "ok")
             => Alternates(MessagesOf(messages', req'[r].chat_id))]_vars

\* C6: a call whose run produces a result adds exactly one user message, the
\* question, and then exactly one ai message whose content is the answer and
\* whose follow_up is the JSON text of the follow_up list, and moves the
\* chat's last_session strictly forward; no other stored message changes
C6_SuccessfulTurn ==
    [][\A r \in 1..MaxCalls :
          LET cid == req'[r].chat_id IN
          /\ (req[r].pc = "responding" /\ req'[r].pc = "streaming")
             => messages' = Append(messages,
                                   [id |-> req'[r].user_msg, chat_id |-> cid,
                                    role |-> "user", content |-> req[r].question,
                                    follow_up |-> <<>>])
          /\ (req[r].pc = "streaming" /\ req'[r] # req[r] /\ req'[r].outcome # "ok")
             => messages' = messages
          /\ (req[r].outcome # "ok" /\ req'[r].outcome = "ok")
             => /\ req[r].result_payload # <<>>
                /\ messages' =
                     Append(messages,
                            [id |-> req'[r].ai_msg, chat_id |-> cid, role |-> "ai",
                             content |-> req[r].result_payload[1].answer,
                             follow_up |->
                                 json_dumps(req[r].result_payload[1].follow_up)])
                /\ Cardinality(RowsWithId(messages', req[r].user_msg)) = 1
                /\ Cardinality(RowsWithId(messages', req'[r].ai_msg)) = 1
                /\ \A i \in RowsWithId(messages', req[r].user_msg) :
                       /\ i < Len(messages')
                       /\ messages'[i].role = "user"
                       /\ messages'[i].content = req[r].question
                       /\ messages'[i].chat_id = cid
                /\ \A c \in chats : c.id = cid =>
                       \E d \in chats' : /\ d.id = cid
                                         /\ d.last_session > c.last_session
                                         /\ [d EXCEPT !.last_session = 0] =
                                                [c EXCEPT !.last_session = 0]
                /\ {c \in chats : c.id # cid} = {c \in chats' : c.id # cid}]_vars

\* a run on the direct branch has completed and its ai row holds the answer
\* and the JSON text of three follow-ups
C6_Witness ==
    \E r \in 1..MaxCalls :
        /\ req[r].outcome = "ok"
        /\ req[r].trace = PathGood
        /\ \E i \in RowsWithId(messages, req[r].ai_msg) :
              /\ messages[i].role = "ai"
              /\ messages[i].content = "answer-1"
              /\ messages[i].follow_up = <<"[", "f1", ",", "f2", ",", "f3", "]">>
              /\ \E j \in RowsWithId(messages, req[r].user_msg) : j < i
        /\ \E c \in chats : c.id = req[r].chat_id /\ c.last_session = now

\* C7: every external failure in a stream call of the owner becomes a single
\* error event that ends the stream, and the question is stored
C7_FailuresBecomeErrorEvents ==
    /\ (resp.op = "stream" /\ resp.token = AliceToken) => resp.status = 200
    /\ \A r \in 1..MaxCalls :
         (req[r].pc = "closed" /\ req[r].outcome # "ok")
            => /\ Cardinality({i \in 1..Len(req[r].events) :
                                  req[r].events[i].type = "error"}) = 1
               /\ req[r].events[Len(req[r].events)].type = "error"
               /\ QuestionStored(r)

-----------------------------------------------------------------------------
(* Properties of the protected endpoints, checked under SpecApi *)

ChatScopedOps == {"get_chat", "delete_chat", "user_delete_chat",
                  "update_chat_name", "get_messages", "stream"}

\* the chats with this id that belong to the user a token names
ChatsOfCaller(token, chat_id) ==
    {c \in chats : /\ c.id = chat_id
                   /\ \E u \in users : u.username = token.sub /\ u.id = c.user_id}

\* C8: an authenticated caller who addresses a chat that is not theirs gets,
\* from get, both deletes, rename, list messages and stream, the Not-Found
\* response a chat id that does not exist gets, and stored state and caches
\* stay as they were
C8_ForeignChatLooksMissing ==
    [][(/\ resp'.op \in ChatScopedOps
        /\ resp'.token = BobToken
        /\ ChatsOfCaller(resp'.token, resp'.chat_id) = {})
          => /\ resp'.status = 404
             /\ resp'.detail = "Chat not found"
             /\ resp'.body = <<>>
             /\ vec_log' = NoVecOp
             /\ UNCHANGED <<now, dbVars, cacheVars, req, issued>>]_vars

\* bob streamed to alice's chat, which exists, and was told it does not
C8_Witness ==
    /\ resp = [op |-> "stream", token |-> BobToken, chat_id |-> 1, status |-> 404,
               detail |-> "Chat not found", body |-> <<>>]
    /\ \E c \in chats : c.id = 1 /\ c.user_id = 1
    /\ active_graphs = <<>>

\* C10: a protected endpoint called with a token that is missing, malformed,
\* wrongly signed, expired or names no user answers Unauthorized and has no
\* effect: no row and no cache entry changes, no pipeline is built or run
C10_UnauthorizedBeforeEffect ==
    [][resp'.token \in BadTokens /\ resp'.op # "none"
          => /\ resp'.status = 401
             /\ resp'.detail \in {"Not authenticated",
                                  "Could not validate credentials"}
             /\ resp'.body = <<>>
             /\ vec_log' = NoVecOp
             /\ UNCHANGED <<now, dbVars, cacheVars, req, issued>>]_vars

\* a correctly signed token of a user that does not exist was refused on
\* chat creation while bob has already created a chat
C10_Witness ==
    /\ resp.op = "create_chat"
    /\ resp.token = GhostToken
    /\ resp.status = 401
    /\ nextChatId > 3

-----------------------------------------------------------------------------
(* Properties of login tokens, checked under SpecAuth *)

\* C9: a token issued by login at time t for username u carries sub = u and
\* exp = t + the expiry window; identity resolution accepts it before exp
\* while the user exists and rejects it as Unauthorized after exp
C9_TokenLifetime ==
    \A k \in issued :
        /\ k.token = [kind |-> "jwt", sub |-> k.username, exp |-> k.at + 60,
                      sig |-> "server"]
        /\ (now < k.token.exp /\ UserByName(k.username) # {})
              => /\ get_current_user(k.token).ok
                 /\ \E u \in users : /\ u.username = k.username
                                     /\ u.id = get_current_user(k.token).user_id
        /\ now > k.token.exp
              => /\ ~get_current_user(k.token).ok
                 /\ Unauthorized("me", k.token, 0).status = 401

\* a token from a login has outlived its window and /user/me has refused it
C9_Witness ==
    \E k \in issued :
        /\ now > k.token.exp
        /\ resp = [op |-> "me", token |-> k.token, chat_id |-> 0, status |-> 401,
                   detail |-> "Could not validate credentials", body |-> <<>>]

-----------------------------------------------------------------------------
(* Properties of register and login, checked under SpecAuth *)

\* C11: the first Register of a username succeeds and creates one User row,
\* every later one fails with the 400 conflict response and leaves the user
\* table as it was, so no username has two rows; no stored password equals
\* the plaintext that was submitted
C11_RegisterOnce ==
    /\ \A u1, u2 \in users : u1.username = u2.username => u1 = u2
    /\ \A u \in users : u.hashed_password \notin PASSWORDS
    /\ \A username \in USERNAMES, password \in PASSWORDS :
         LET r == register(users, username, password) IN
         IF \E u \in users : u.username = username
         THEN /\ r.status = 400
              /\ r.users = users
         ELSE /\ r.status = 200
              /\ users \subseteq r.users
              /\ Cardinality(r.users \ users) = 1
              /\ \A u \in r.users \ users : /\ u.username = username
                                            /\ u.hashed_password # password

\* alice and bob are registered and the last Register was refused
C11_Witness ==
    /\ resp.op = "register"
    /\ resp.status = 400
    /\ resp.detail = "Username already registered"
    /\ {u.username : u \in users} = {"alice", "bob"}
    /\ Cardinality(users) = 2

\* C12: Login returns a bearer token exactly when a user with the username
\* exists and the password verifies against the stored hash; an unknown
\* username and a wrong password get the same 401 response; Login changes no
\* stored state
C12_Login ==
    [][/\ \A username \in USERNAMES, password \in PASSWORDS :
            LET r == login(users, username, password, now)
                good == \E u \in users :
                            /\ u.username = username
                            /\ u.hashed_password = get_password_hash(password)
            IN /\ good => /\ r.status = 200
                          /\ r.detail = "bearer"
                          /\ r.body = <<[kind |-> "jwt", sub |-> username,
                                         exp |-> now + 60, sig |-> "server"]>>
               /\ ~good => r = [ok |-> FALSE, status |-> 401,
                                detail |-> "Incorrect username or password",
                                body |-> <<>>]
       /\ (resp'.op = "login" /\ now' = now)
            => /\ UNCHANGED <<now, dbVars, cacheVars, req>>
               /\ resp'.status \in {200, 401}
               /\ resp'.status = 401 => issued' = issued]_vars

\* a login was refused while a user is registered and a token is out
C12_Witness ==
    /\ resp = [op |-> "login", token |-> MissingToken, chat_id |-> 0,
               status |-> 401, detail |-> "Incorrect username or password",
               body |-> <<>>]
    /\ users # {}
    /\ issued # {}

-----------------------------------------------------------------------------
(* Properties of chat deletion *)

\* the ids that chats or messages carry
ChatIds == 1..(MaxChats + 1)

\* C13: right after a successful Delete of a chat, through /chat/delete or
\* /user/chats, no stored message carries that chat's id, and the messages of
\* every other chat are as they were
C13_DeleteCascades ==
    [][(resp'.op \in {"delete_chat", "user_delete_chat"} /\ resp'.status = 200)
          => /\ \A i \in 1..Len(messages') : messages'[i].chat_id # resp'.chat_id
             /\ \A id \in ChatIds \ {resp'.chat_id} :
                    MessagesOf(messages', id) = MessagesOf(messages, id)
             /\ \A c \in chats' : c.id # resp'.chat_id]_vars

\* bob has deleted his chat, which held one turn; alice's turn is still there
C13_Witness ==
    /\ resp.op = "user_delete_chat"
    /\ resp.token = BobToken
    /\ resp.chat_id = 2
    /\ resp.status = 200
    /\ MessagesOf(messages, 2) = <<>>
    /\ Len(MessagesOf(messages, 1)) = 2

-----------------------------------------------------------------------------
(* Properties of chat creation and metadata resolution, checked under SpecApi *)

\* C15: for a URL with an extractable video id, metadata resolution tries
\* cache, yt-dlp, Piped, placeholder in that order, stops at the first that
\* succeeds, makes no later lookup after an earlier one succeeded, returns
\* whatever fails, and ends with a cache entry for the URL; a cached URL makes
\* no external call
C15_MetadataWaterfall ==
    \A url \in URLS, ext \in MetaOutcomes :
        LET v == is_valid_youtube_url(video_info_cache, url, ext) IN
        /\ v.valid
        /\ url \in DOMAIN v.cache
        /\ \A u \in DOMAIN video_info_cache :
               u \in DOMAIN v.cache /\ (u # url => v.cache[u] = video_info_cache[u])
        /\ DOMAIN v.cache = DOMAIN video_info_cache \cup {url}
        /\ IF url \in DOMAIN video_info_cache
           THEN /\ v.calls = <<>>
                /\ v.cache = video_info_cache
           ELSE IF ext.ytdlp = "ok"
           THEN /\ v.calls = <<"ytdlp">>
                /\ v.cache[url].title = "yt-title"
           ELSE IF ext.piped = "ok"
           THEN /\ v.calls = <<"ytdlp", "piped">>
                /\ v.cache[url].title = "piped-title"
           ELSE /\ v.calls = <<"ytdlp", "piped">>
                /\ v.cache[url] =
                     [title |-> "YouTube Video (Metadata Hidden)",
                      author |-> "Unknown",
                      thumbnail_url |-> "https://img.youtube.com/vi/id-" \o url
                                        \o "/mqdefault.jpg"]

\* yt-dlp failed and Piped answered for video C, whose entry is now cached
C15_Witness ==
    /\ "C" \in DOMAIN video_info_cache
    /\ video_info_cache["C"].title = "piped-title"
    /\ \A ext \in MetaOutcomes :
           is_valid_youtube_url(video_info_cache, "C", ext).calls = <<>>

\* C16: Create chat fails with 400 exactly when no video id can be extracted
\* from the URL; then no chat row is stored and the metadata cache is
\* unchanged; with an extractable id it succeeds even when every metadata
\* strategy fails, storing the placeholder metadata
C16_CreateChat ==
    \A url \in URLS \cup {BadUrl}, name \in NAMES, ext \in MetaOutcomes :
        LET r == create_chat(chats, video_info_cache, nextChatId, now + 1, 2,
                             url, name, ext)
        IN /\ r.status \in {400, 201}
           /\ r.status = 400 <=> url = BadUrl
           /\ r.status = 400 => /\ r.chats = chats
                                /\ r.cache = video_info_cache
           /\ r.status = 201 =>
                /\ Cardinality(r.chats \ chats) = 1
                /\ chats \subseteq r.chats
                /\ \A c \in r.chats \ chats :
                      /\ c.url = url
                      /\ c.user_id = 2
                      /\ c.id = nextChatId
                      /\ (url \notin DOMAIN video_info_cache
                            /\ ext.ytdlp # "ok" /\ ext.piped # "ok")
                         => /\ c.title = "YouTube Video (Metadata Hidden)"
                            /\ c.author = "Unknown"
                            /\ c.thumbnail_url = "https://img.youtube.com/vi/id-"
                                                 \o url \o "/mqdefault.jpg"

\* bob created a chat on video C while every metadata strategy failed, and a
\* URL without a video id was then refused
C16_Witness ==
    /\ resp.op = "create_chat"
    /\ resp.status = 400
    /\ resp.detail = "Invalid YouTube URL"
    /\ \E c \in chats : /\ c.url = "C"
                        /\ c.user_id = 2
                        /\ c.title = "YouTube Video (Metadata Hidden)"
                        /\ c.thumbnail_url =
                             "https://img.youtube.com/vi/id-C/mqdefault.jpg"
    /\ BadUrl \notin DOMAIN video_info_cache

-----------------------------------------------------------------------------
(* Properties of the node functions, checked under SpecNodes *)

\* the positions of the candidates that reach 0.65
Kept(results) == {i \in 1..Len(results) : results[i].score >= 65}

\* the j-th of these positions, counted from the front
NthKept(results, j) ==
    CHOOSE i \in Kept(results) :
        Cardinality({m \in Kept(results) : m < i}) = j - 1

\* C17: for every list of (chunk, score) candidates, the RETRIEVER node's
\* documents are exactly the texts of the candidates scoring >= 0.65, in their
\* original order, and the question is returned unchanged; an empty result is
\* not an error
C17_RetrieverThreshold ==
    (fn_args # <<>> /\ fn_args.fn = "retriever_tool" /\ fn_result # <<>>)
       => LET results == fn_args.results
              out == fn_result[1]
          IN /\ out.question = fn_args.question
             /\ Len(out.documents) = Cardinality(Kept(results))
             /\ \A j \in 1..Len(out.documents) :
                    out.documents[j] = results[NthKept(results, j)].page_content
             /\ (\A i \in 1..Len(results) : results[i].score < 65)
                    => out.documents = <<>>
             /\ [i \in 1..Len(results) |-> results[i].score] = <<90, 70, 50, 20>>
                    => out.documents = <<"chunk-a", results[2].page_content>>

\* candidates scoring 0.50, 0.65, 0.90 and 0.70 went in; the last three came out
C17_Witness ==
    /\ fn_args # <<>>
    /\ fn_args.fn = "retriever_tool"
    /\ [i \in 1..Len(fn_args.results) |-> fn_args.results[i].score]
           = <<50, 65, 90, 70>>
    /\ fn_result # <<>>
    /\ Len(fn_result[1].documents) = 3
    /\ fn_result[1].documents[1] = "chunk-c"
    /\ fn_result[1].documents[2] = "chunk-a"

\* C18: for a history of n entries and a summary s, build_chat_context
\* returns (history, s) and makes no summarization call when n <= 10; when
\* n > 10 it makes exactly one summarization call, over the first n - 10
\* entries together with s, and returns the last 10 entries in order with the
\* summary that call produced
C18_BufferLastTen ==
    (fn_args # <<>> /\ fn_args.fn = "build_chat_context" /\ fn_result # <<>>)
       => LET h == fn_args.chat_history
              n == Len(h)
              out == fn_result[1]
          IN IF n <= 10
             THEN /\ out.recent = h
                  /\ out.summary = fn_args.summary
                  /\ out.calls = <<>>
                  /\ ~out.raised
             ELSE /\ out.calls = <<[chat_history |-> [i \in 1..(n - 10) |-> h[i]],
                                    existing_summary |-> fn_args.summary]>>
                  /\ out.raised <=> fn_args.llm = "error"
                  /\ ~out.raised
                       => /\ out.recent = [i \in 1..10 |-> h[n - 10 + i]]
                          /\ out.summary = fn_args.llm

\* 13 stored messages: the last 10 came back and the first 3 were summarized
C18_Witness ==
    /\ fn_args # <<>>
    /\ fn_args.fn = "build_chat_context"
    /\ Len(fn_args.chat_history) = 13
    /\ fn_result # <<>>
    /\ [i \in 1..10 |-> fn_result[1].recent[i].content] =
           <<4, 5, 6, 7, 8, 9, 10, 11, 12, 13>>
    /\ fn_result[1].summary = "summary-1"
    /\ Len(fn_result[1].calls[1].chat_history) = 3

-----------------------------------------------------------------------------
(* Properties of the chat list, checked under SpecOwner *)

\* the chat that is ahead of every other chat of its owner
IsFirst(c, rows) ==
    /\ c \in rows
    /\ \A d \in rows : (d.user_id = c.user_id /\ d.id # c.id)
                          => c.last_session > d.last_session

\* this step completes a turn on a chat of the user
TurnCompletes(user_id) ==
    \E r \in 1..MaxCalls :
        /\ req[r].outcome # "ok"
        /\ req'[r].outcome = "ok"
        /\ \E c \in chats : c.id = req[r].chat_id /\ c.user_id = user_id

\* this step stores a new chat of the user
ChatCreated(user_id) ==
    \E d \in chats' : d.user_id = user_id /\ d.id \notin {c.id : c \in chats}

\* C19: /chat/list and /user/chats return exactly the caller's own chats,
\* each once, ordered by last_session descending; the step that completes a
\* turn on chat c puts c ahead of every other chat of its owner, and c stays
\* ahead until a chat of that owner is created or completes a turn
C19_ListMostRecentFirst ==
    [][/\ (/\ resp' # resp
           /\ resp'.op \in {"list_chats", "get_user_chats"}
           /\ resp'.status = 200)
          => LET body == resp'.body
                 own == {c \in chats : \E u \in users : /\ u.username = resp'.token.sub
                                                         /\ u.id = c.user_id}
             IN /\ Len(body) = Cardinality(own)
                /\ {body[i].id : i \in 1..Len(body)} = {c.id : c \in own}
                /\ \A i \in 1..Len(body) :
                       \E c \in own : /\ c.id = body[i].id
                                      /\ c.last_session = body[i].last_session
                                      /\ c.url = body[i].url
                                      /\ (i = 1 => IsFirst(c, chats))
                /\ \A i, j \in 1..Len(body) :
                       i < j => body[i].last_session >= body[j].last_session
       /\ \A r \in 1..MaxCalls :
            (req[r].outcome # "ok" /\ req'[r].outcome = "ok")
               => \E c \in chats' : c.id = req[r].chat_id /\ IsFirst(c, chats')
       /\ \A c \in chats :
            (/\ IsFirst(c, chats)
             /\ ~TurnCompletes(c.user_id)
             /\ ~ChatCreated(c.user_id))
               => \E d \in chats' : d.id = c.id /\ IsFirst(d, chats')]_vars

\* a turn on chat 1, the older of alice's chats, has completed, bob has
\* created a chat since, and alice's list shows her two chats with chat 1 first
C19_Witness ==
    /\ resp.op = "list_chats"
    /\ resp.status = 200
    /\ Len(resp.body) = 2
    /\ resp.body[1].id = 1
    /\ resp.body[2].id = 2
    /\ \E r \in 1..MaxCalls : req[r].outcome = "ok" /\ req[r].chat_id = 1
    /\ \E c \in chats : c.user_id = 2

-----------------------------------------------------------------------------
(* Properties of a chat's stored fields, checked under SpecChat *)

\* the fields a chat gets at creation
Origin(c) ==
    [url |-> c.url, title |-> c.title, author |-> c.author,
     thumbnail_url |-> c.thumbnail_url, user_id |-> c.user_id,
     created_at |-> c.created_at]

\* C20: whatever is done to an existing chat (rename, get, list, list
\* messages, stream turns, creation of other chats on the same URL), its url,
\* title, author, thumbnail_url, owner and created_at stay the values written
\* at creation; a rename changes the name of that chat and nothing else
C20_CreationFieldsFrozen ==
    [][/\ \A c \in chats : \A d \in chats' : d.id = c.id => Origin(d) = Origin(c)
       /\ \A d \in chats' :
            d.id = 1 => Origin(d) = Origin(ChatRow(1, 1, "A", "",
                                                   resolve_metadata("A", "ytdlp"), 0))
       /\ (resp' # resp /\ resp'.op = "update_chat_name" /\ resp'.status = 200)
             => /\ \E c \in chats :
                     /\ c.id = resp'.chat_id
                     /\ chats' = (chats \ {c}) \cup {[c EXCEPT !.name = "renamed"]}
                /\ UNCHANGED <<now, users, messages, nextChatId, nextMsgId,
                               cacheVars, req, issued>>]_vars

\* chat 1 has been renamed, has completed a turn, and a second chat on its
\* video exists whose metadata resolved differently; chat 1 keeps the title,
\* author, thumbnail and creation time it was stored with
C20_Witness ==
    /\ \E c \in chats :
         /\ c.id = 1
         /\ c.name = "renamed"
         /\ c.last_session > 0
         /\ c.created_at = 0
         /\ c.title = resolve_metadata("A", "ytdlp").title
         /\ \E d \in chats : d.id # 1 /\ d.url = c.url /\ d.title # c.title
    /\ \E r \in 1..MaxCalls : req[r].outcome = "ok" /\ req[r].chat_id = 1
    /\ resp.op = "get_chat"
    /\ resp.status = 200

-----------------------------------------------------------------------------
(* Properties of the message list, checked under SpecMessages *)

\* C21: list messages on an owned chat returns every stored message of the
\* chat in ascending creation order and does not fail whatever the follow_up
\* column holds: an absent value or a text that is not valid JSON comes back
\* as the empty array, a JSON array of strings as that array
C21_ListMessagesTolerant ==
    (resp.op = "get_messages" /\ ChatsOfCaller(resp.token, resp.chat_id) # {})
       => LET rows == MessagesOf(messages, resp.chat_id) IN
          /\ resp.status = 200
          /\ Len(resp.body) = Len(rows)
          /\ \A i \in 1..Len(rows) :
                /\ resp.body[i].id = rows[i].id
                /\ resp.body[i].role = rows[i].role
                /\ resp.body[i].content = rows[i].content
                /\ rows[i].follow_up = <<>> => resp.body[i].follow_up = <<>>
                /\ \A list \in {<<>>, <<"f1", "f2", "f3">>} :
                      rows[i].follow_up = json_dumps(list)
                         => resp.body[i].follow_up = list
                /\ rows[i].follow_up \in {<<"[", "f1", ",">>, <<"oops">>}
                      => resp.body[i].follow_up = <<>>
          /\ \A i, j \in 1..Len(rows) : i < j => resp.body[i].id < resp.body[j].id

-----------------------------------------------------------------------------
(* Properties of the compiled-pipeline cache, checked under SpecGraphs *)

\* C22: whatever chats are created, deleted and streamed on, a pipeline is
\* built at most once per chat id: an entry of active_graphs is never rebuilt
\* or replaced, a stream call on an id that has an entry builds nothing, and
\* the URL the entry is bound to is the stored URL of the chat the call
\* addresses
C22_OneGraphPerChat ==
    [][/\ \A cid \in DOMAIN active_graphs :
            /\ cid \in DOMAIN active_graphs'
            /\ active_graphs'[cid].url = active_graphs[cid].url
            /\ active_graphs'[cid].vs = active_graphs[cid].vs
       /\ \A r \in 1..MaxCalls :
            (req[r].pc = "idle" /\ req'[r].pc = "responding")
               => LET cid == req'[r].chat_id IN
                  /\ cid \in DOMAIN active_graphs'
                  /\ cid \in DOMAIN active_graphs => vec_log' = NoVecOp
                  /\ \E c \in chats : /\ c.id = cid
                                      /\ active_graphs'[cid].url = c.url]_vars

-----------------------------------------------------------------------------
(* Properties of concurrent cache population, checked under SpecRace *)

\* the workers that have stored metadata for the url
Writers(url) == {w \in 1..MaxWorkers : workers[w].url = url /\ workers[w].wrote # <<>>}

\* the stream calls on the chat that have obtained their pipeline
Holders(chat_id) == {r \in 1..MaxCalls : req[r].chat_id = chat_id /\ req[r].pc # "idle"}

\* the stream calls on the chat that have loaded their history
Loaders(chat_id) == {r \in 1..MaxCalls : req[r].chat_id = chat_id /\ req[r].user_msg # 0}

\* C23: when two requests populate the same absent key of a process-wide
\* cache at the same time (metadata of a URL, vector index of a URL, pipeline
\* of a chat, summary of a chat), the cache ends with one entry for the key,
\* which is what one of the two wrote; the entries of the other keys are what
\* a single population leaves; the vector-index cache holds at most 3 entries
C23_BenignRace ==
    /\ Len(vector_store_cache) <= MAX_CACHED_VECTORS
    /\ \A i, j \in 1..Len(vector_store_cache) :
           i # j => vector_store_cache[i].url # vector_store_cache[j].url
    /\ DOMAIN video_info_cache = {"B"} \cup (IF Writers("C") # {} THEN {"C"} ELSE {})
    /\ video_info_cache["B"] = resolve_metadata("B", "fallback")
    /\ Writers("C") # {}
          => video_info_cache["C"] \in {workers[w].wrote[1] : w \in Writers("C")}
    /\ vector_store_cache = IF Holders(1) = {} THEN <<[url |-> "B", vs |-> 1]>>
                            ELSE <<[url |-> "B", vs |-> 1], [url |-> "A", vs |-> 2]>>
    /\ DOMAIN active_graphs = {2} \cup (IF Holders(1) # {} THEN {1} ELSE {})
    /\ active_graphs[2] = BobGraph
    /\ Holders(1) # {} => (active_graphs[1].url = "A" /\ active_graphs[1].vs = 2)
    /\ deleted_collections = {}
    /\ DOMAIN summary_cache = IF Loaders(1) # {} THEN {1} ELSE {}
    /\ Loaders(1) # {} => summary_cache[1] \in SummaryOutcomes \ {"error"}

\* two workers both missed video C in the cache and both stored what they
\* resolved, which differs; two first messages on chat 1 both hold its
\* pipeline and have both summarized its history
C23_Witness ==
    /\ Writers("C") = {1, 2}
    /\ workers[1].wrote # workers[2].wrote
    /\ video_info_cache["C"] = workers[1].wrote[1]
    /\ Holders(1) = {1, 2}
    /\ Loaders(1) = {1, 2}
    /\ summary_cache[1] = "summary-2"
    /\ Len(vector_store_cache) = 2

-----------------------------------------------------------------------------
(* Properties of the event stream, checked under SpecDelete *)

\* the positions of the events of a type in the stream of a call
EventsOfType(r, type) ==
    {i \in 1..Len(req[r].events) : req[r].events[i].type = type}

\* C24: the event stream of a stream call holds at most one error event and
\* at most one result event, and an error event is its last event; the call
\* that emits an error event stores no ai message, and the step that emits it
\* leaves every message and every chat's last_session as they were
C24_ErrorEndsStream ==
    [][\A r \in 1..MaxCalls :
          /\ Cardinality(EventsOfType(r, "error")) <= 1
          /\ Cardinality(EventsOfType(r, "result")) <= 1
          /\ \A i \in EventsOfType(r, "error") :
                /\ i = Len(req[r].events)
                /\ req[r].pc = "closed"
                /\ req[r].ai_msg = 0
                /\ req'[r] = req[r]
          /\ (req[r].pc # "closed" /\ req'[r].pc = "closed"
                /\ req'[r].events # req[r].events)
                => /\ req'[r].events = Append(req[r].events, ErrorEvent)
                   /\ req'[r].ai_msg = 0
                   /\ messages' = messages
                   /\ chats' = chats]_vars

\* a run produced its result on a chat that was deleted meanwhile: the stream
\* ends result, error, and no ai message was stored
C24_Witness ==
    \E r \in 1..MaxCalls :
        /\ req[r].pc = "closed"
        /\ Len(req[r].events) >= 2
        /\ req[r].events[Len(req[r].events)].type = "error"
        /\ req[r].events[Len(req[r].events) - 1].type = "result"
        /\ req[r].ai_msg = 0
        /\ \A i \in 1..Len(messages) : messages[i].chat_id # req[r].chat_id

-----------------------------------------------------------------------------
(* Properties of the status events, checked under SpecStream *)

\* the events of a call without the error event that may end them
Progress(r) ==
    SelectSeq(req[r].events, LAMBDA e : e.type # "error")

\* the status text of each node; JUDGE has two
StatusTexts(node) ==
    CASE node = "REFORMULATE" -> {"Understanding query..."}
      [] node = "RETRIEVER" -> {"Searching video..."}
      [] node = "AGENT" -> {"Analyzing..."}
      [] node = "JUDGE" -> {"Verified", "Refining answer..."}
      [] node = "SEARCH_TAVILY" -> {"Searching the web..."}
      [] node = "FINAL_AGENT" -> {"Finalizing..."}
      [] OTHER -> {}

\* C25: within one stream call there is one event per completed node, in the
\* order the nodes ran: a status event with the node's text for every node
\* but GENERATE_ANSWER, whose event is the result; the JUDGE status is
\* "Verified" exactly when the run goes on to GENERATE_ANSWER and "Refining
\* answer..." exactly when it goes on to SEARCH_TAVILY; the result event
\* comes after every status event and before the ai message is stored
C25_StatusEventsFollowNodes ==
    \A r \in 1..MaxCalls :
        LET t == req[r].trace
            ev == Progress(r)
        IN /\ Len(ev) = Len(t)
           /\ \A i \in 1..Len(t) :
                 IF t[i] = "GENERATE_ANSWER"
                 THEN ev[i].type = "result" /\ i = Len(t)
                 ELSE ev[i].type = "status" /\ ev[i].msg \in StatusTexts(t[i])
           /\ Len(t) >= 4 =>
                 /\ ev[4].msg = "Verified"
                      <=> NextNode("JUDGE", req[r].is_good) = "GENERATE_ANSWER"
                 /\ ev[4].msg = "Refining answer..."
                      <=> NextNode("JUDGE", req[r].is_good) = "SEARCH_TAVILY"
           /\ Len(t) >= 5 =>
                 /\ ev[4].msg = "Verified" <=> t[5] = "GENERATE_ANSWER"
                 /\ ev[4].msg = "Refining answer..." <=> t[5] = "SEARCH_TAVILY"
           /\ req[r].outcome = "ok" =>
                 (ev[4].msg = "Verified"
                    <=> \A i \in 1..Len(t) : t[i] # "SEARCH_TAVILY")
           /\ req[r].ai_msg # 0 =>
                 (ev # <<>> /\ ev[Len(ev)].type = "result")

\* the judge said no: the call has emitted six status events, "Refining
\* answer..." among them, and its result event, and the ai message is not
\* stored yet
C25_Witness ==
    \E r \in 1..MaxCalls :
        /\ req[r].pc = "streaming"
        /\ Len(req[r].events) = 7
        /\ req[r].events[4].msg = "Refining answer..."
        /\ req[r].events[5].msg = "Searching the web..."
        /\ req[r].events[7].type = "result"
        /\ req[r].ai_msg = 0
        /\ \A i \in 1..Len(messages) : messages[i].id # nextMsgId

-----------------------------------------------------------------------------
(* Properties of a pipeline run, checked under SpecStreamFair *)

\* the graph runs one node after another: every node has one way on
OneSuccessor ==
    /\ \A n \in (Nodes \cup {"START"}) \ {"JUDGE"} :
          Cardinality({m \in Nodes \cup {"END"} : <<n, m>> \in Edges}) = 1
    /\ \A m \in Nodes \cup {"END"} : <<"JUDGE", m>> \notin Edges
    /\ \A n \in Nodes : (NextNode(n, {TRUE}) = "END" \/ NextNode(n, {FALSE}) = "END")
                           <=> n = "GENERATE_ANSWER"

\* what holds of a run at every moment
RunBounded(r) ==
    LET t == req[r].trace IN
    /\ \A i, j \in 1..Len(t) : i # j => t[i] # t[j]
    /\ Len(t) <= 7
    /\ (Len(t) >= 5 /\ t[5] = "GENERATE_ANSWER") => Len(t) = 5
    /\ req[r].outcome = "ok" => (t # <<>> /\ t[Len(t)] = "GENERATE_ANSWER")
    /\ (t # <<>> /\ t[Len(t)] = "GENERATE_ANSWER") => req[r].result_payload # <<>>

\* C26: every pipeline run terminates: it executes each node at most once,
\* one node at a time, and after at most 7 node executions (5 when the judge
\* said yes) GENERATE_ANSWER has produced the output or a node has raised;
\* the run ends normally only after GENERATE_ANSWER
C26_RunTerminates ==
    /\ [](OneSuccessor /\ \A r \in 1..MaxCalls : RunBounded(r))
    /\ \A r \in 1..MaxCalls :
          (req[r].pc = "streaming") ~> (req[r].pc = "closed")

\* a run has ended normally after seven node executions
C26_Witness ==
    \E r \in 1..MaxCalls :
        /\ req[r].pc = "closed"
        /\ req[r].outcome = "ok"
        /\ Len(req[r].trace) = 7
        /\ req[r].trace[7] = "GENERATE_ANSWER"
        /\ req[r].result_payload # <<>>


-----------------------------------------------------------------------------
(* Properties of the checkpointed messages, checked under SpecTurns *)

\* the messages the turn of call r has put into its thread's checkpoint so far:
\* the question once the pipeline has started, then one message for each of
\* agent, final_agent and generate_answer that has run
TurnMessages(r) ==
    LET ran == {req[r].trace[i] : i \in 1..Len(req[r].trace)}
        started == req[r].user_msg # 0 /\ (req[r].node # "START" \/ req[r].pc = "closed")
    IN (IF started THEN <<HumanMessage(req[r].question)>> ELSE <<>>)
       \o (IF "AGENT" \in ran
           THEN <<[type |-> "ai", content |-> <<"draft", "AGENT">>]>> ELSE <<>>)
       \o (IF "FINAL_AGENT" \in ran
           THEN <<[type |-> "ai", content |-> <<"draft", "FINAL_AGENT">>]>> ELSE <<>>)
       \o (IF "GENERATE_ANSWER" \in ran
           THEN <<[type |-> "ai",
                   content |-> <<"json", req[r].result_payload[1].answer>>]>>
           ELSE <<>>)

\* the messages of the turns of the calls on a chat, in the order of the turns
RECURSIVE MessagesOfTurns(_, _)
MessagesOfTurns(chat_id, calls) ==
    IF calls = {} THEN <<>>
    ELSE LET last == CHOOSE r \in calls :
                        \A k \in calls : req[k].user_msg <= req[r].user_msg
         IN MessagesOfTurns(chat_id, calls \ {last})
            \o (IF req[last].chat_id = chat_id THEN TurnMessages(last) ELSE <<>>)

\* C27: for turns that follow one another on a chat, every step leaves the
\* checkpointed message sequence of the chat as a prefix of the new one, and
\* the sequence is the concatenation, in the order of the turns, of what each
\* turn appended: the question, the AGENT draft, the FINAL_AGENT draft if the
\* fallback branch ran, and the JSON of the final answer
C27_CheckpointAppendOnly ==
    [][\A chat_id \in DOMAIN active_graphs :
          /\ chat_id \in DOMAIN active_graphs'
          /\ IsPrefix(active_graphs[chat_id].messages,
                      active_graphs'[chat_id].messages)
          /\ active_graphs'[chat_id].messages
                = MessagesOfTurns(chat_id, 1..MaxCalls)']_vars

\* two turns on chat 1 have completed, the first through the fallback branch,
\* and the checkpoint holds the four messages of the first and the three of
\* the second
C27_Witness ==
    /\ \A r \in 1..MaxCalls : r <= 2 => req[r].outcome = "ok" /\ req[r].chat_id = 1
    /\ req[1].user_msg < req[2].user_msg
    /\ "FINAL_AGENT" \in {req[1].trace[i] : i \in 1..Len(req[1].trace)}
    /\ "FINAL_AGENT" \notin {req[2].trace[i] : i \in 1..Len(req[2].trace)}
    /\ 1 \in DOMAIN active_graphs
    /\ Len(active_graphs[1].messages) = 7
    /\ active_graphs[1].messages[5] = HumanMessage(req[2].question)


-----------------------------------------------------------------------------
(* Caption track selection of get_transcript_text, checked under
   SpecTranscript *)

\* the languages get_transcript_text looks for, in its order
PreferredLangs == <<"en", "en-US", "en-orig", "en-GB">>

\* languages and format lists of the caption tracks yt-dlp can report
TrackLangs == {"en", "en-GB", "fr"}
TrackFormats == {<<>>, <<"vtt", "json3">>, <<"vtt">>, <<"srv1">>}

\* a caption dict as yt-dlp reports it: languages in listing order, each once
CaptionDicts ==
    {d \in SeqsUpTo([lang : TrackLangs, formats : TrackFormats], MaxTracks) :
        \A i, j \in 1..Len(d) : i # j => d[i].lang # d[j].lang}

TranscriptInputs ==
    [fn : {"get_transcript_text"}, subtitles : CaptionDicts,
     automatic_captions : CaptionDicts]

\* the languages of a caption dict
Langs(d) == {d[i].lang : i \in 1..Len(d)}

\* the track get_transcript_text downloads: the dict it looks into, the
\* language and the format, or the error it raises
select_track(subtitles, automatic_captions) ==
    LET source == IF subtitles # <<>> THEN "subtitles" ELSE "automatic_captions"
        subs == IF subtitles # <<>> THEN subtitles ELSE automatic_captions
        found == {i \in 1..Len(PreferredLangs) : PreferredLangs[i] \in Langs(subs)}
        lang == IF found # {}
                THEN PreferredLangs[CHOOSE i \in found : \A j \in found : i <= j]
                ELSE subs[1].lang
        formats == (CHOOSE t \in {subs[i] : i \in 1..Len(subs)} : t.lang = lang).formats
        exts == {formats[i] : i \in 1..Len(formats)}
    IN IF subs = <<>>
       THEN [raised |-> TRUE, source |-> "", lang |-> "", ext |-> "",
             detail |-> "Failed to fetch transcript: No subtitles found for this video."]
       ELSE IF "json3" \in exts
       THEN [raised |-> FALSE, source |-> source, lang |-> lang, ext |-> "json3",
             detail |-> ""]
       ELSE IF "vtt" \in exts
       THEN [raised |-> FALSE, source |-> source, lang |-> lang, ext |-> "vtt",
             detail |-> ""]
       ELSE [raised |-> TRUE, source |-> source, lang |-> lang, ext |-> "",
             detail |-> "Failed to fetch transcript: Could not find a parsable subtitle format."]

\* get_transcript_text up to the download of the track it has selected
GetTranscriptText ==
    /\ fn_args.fn = "get_transcript_text"
    /\ fn_result = <<>>
    /\ fn_result' = <<select_track(fn_args.subtitles, fn_args.automatic_captions)>>
    /\ UNCHANGED <<now, dbVars, cacheVars, req, resp, issued, vec_log, fn_args,
                   workers>>

\* get_transcript_text is about to be called on a video's caption tracks
InitTranscript ==
    /\ InitEmptyStore
    /\ fn_args \in TranscriptInputs
    /\ fn_result = <<>>

NextTranscript == GetTranscriptText

SpecTranscript == InitTranscript /\ [][NextTranscript]_vars

\* C28: the selected track is in the first of en, en-US, en-orig, en-GB that
\* exists among the manual and the automatic caption tracks together, and in
\* the first listed language only if none of the four exists; json3 is used
\* if the track has it, otherwise vtt, and the call fails if it has neither
C28_TrackSelection ==
    (fn_args # <<>> /\ fn_args.fn = "get_transcript_text" /\ fn_result # <<>>)
       => LET res == fn_result[1]
              both == Langs(fn_args.subtitles) \cup Langs(fn_args.automatic_captions)
              found == {i \in 1..Len(PreferredLangs) : PreferredLangs[i] \in both}
              listed == fn_args.subtitles \o fn_args.automatic_captions
          IN /\ both = {} => res.raised
             /\ (both # {} /\ found # {})
                   => res.lang = PreferredLangs[CHOOSE i \in found :
                                                   \A j \in found : i <= j]
             /\ (both # {} /\ found = {}) => res.lang = listed[1].lang
             /\ (both # {})
                   => \E t \in {fn_args[res.source][i] :
                                  i \in 1..Len(fn_args[res.source])} :
                         LET exts == {t.formats[i] : i \in 1..Len(t.formats)}
                         IN /\ t.lang = res.lang
                            /\ res.ext = IF "json3" \in exts THEN "json3"
                                         ELSE IF "vtt" \in exts THEN "vtt" ELSE ""
                            /\ res.raised <=> exts \cap {"json3", "vtt"} = {}


-----------------------------------------------------------------------------
(* The empty transcript, checked under SpecEmpty *)

\* C29: get_vector_store for an uncached URL whose transcript is the empty
\* string raises and leaves the vector-index cache without an entry for the
\* URL
C29_EmptyTranscriptRejected ==
    [][\A url \in URLS :
          (/\ ~InCache(vector_store_cache, url)
           /\ vec_log'.op = "get_empty"
           /\ vec_log'.url = url)
             => /\ vec_log'.outcome = "empty_rejected"
                /\ ~InCache(vector_store_cache', url)]_vars


-----------------------------------------------------------------------------
(* The store a pipeline's retriever holds, checked under SpecFull *)

\* C30: whenever the RETRIEVER node of a chat's cached pipeline runs, the
\* vector index the node closed over when the pipeline was built has not had
\* its collection deleted by an eviction or a release
C30_RetrieverStoreAlive ==
    [][\A r \in 1..MaxCalls :
          (req[r].node # "RETRIEVER" /\ req'[r].node = "RETRIEVER")
             => active_graphs[req[r].chat_id].vs \notin deleted_collections]_vars


-----------------------------------------------------------------------------
(* A failed transcript fetch, checked under SpecFull *)

\* this step is a stream call on the chat that has reached get_chat_graph
StreamStep(chat_id) ==
    \/ \E r \in 1..MaxCalls : /\ req[r].pc = "idle"
                              /\ req'[r].pc = "responding"
                              /\ req'[r].chat_id = chat_id
    \/ /\ req' = req
       /\ resp'.op = "stream"
       /\ resp'.chat_id = chat_id
       /\ resp'.status = 500

\* C31: a stream call whose transcript fetch fails while the chat's pipeline
\* is first built leaves the vector-index cache as it was (nothing evicted,
\* nothing added, no collection deleted), adds no pipeline for the chat, and
\* every stream call on a chat that has no pipeline, so also the next one on
\* that chat, runs the build for the chat's video
C31_FailedFetchLeavesCaches ==
    [][\A c \in chats :
          (StreamStep(c.id) /\ c.id \notin DOMAIN active_graphs)
             => /\ vec_log'.op = "get"
                /\ vec_log'.url = c.url
                /\ vec_log'.outcome \in {"hit", "built", "transcript_error",
                                         "embedding_error"}
                /\ vec_log'.outcome = "transcript_error"
                      => /\ vector_store_cache' = vector_store_cache
                         /\ deleted_collections' = deleted_collections
                         /\ nextVs' = nextVs
                         /\ active_graphs' = active_graphs
                         /\ resp'.status = 500
                         /\ req' = req]_vars

\* the first message on chat 4 has just failed on the transcript of video D
\* while the cache was full: the cache still holds the stores of A, B and C,
\* no collection has been deleted and chat 4 has no pipeline
C31_Witness ==
    /\ vec_log = [op |-> "get", url |-> "D", outcome |-> "transcript_error"]
    /\ resp.op = "stream" /\ resp.chat_id = 4 /\ resp.status = 500
    /\ Len(vector_store_cache) = MAX_CACHED_VECTORS
    /\ ~InCache(vector_store_cache, "D")
    /\ deleted_collections = {}
    /\ 4 \notin DOMAIN active_graphs


-----------------------------------------------------------------------------
(* What the nodes of a turn read, checked under SpecStream *)

\* the nodes the run of call r has completed
Ran(r) == {req[r].trace[i] : i \in 1..Len(req[r].trace)}

\* C32: in every turn, also one that finds earlier turns in the chat's
\* checkpoint, JUDGE reads the draft AGENT appended in this turn (the message
\* after this turn's question), the node after JUDGE is the one router picks
\* for the verdict JUDGE reported in this turn, and GENERATE_ANSWER reads the
\* latest draft of this turn: FINAL_AGENT's if the fallback branch ran,
\* otherwise AGENT's
C32_NodesReadOwnTurn ==
    \A r \in 1..MaxCalls :
        LET m == req[r].state_messages
            base == req[r].base
        IN /\ req[r].trace # <<>>
                => /\ Len(m) > base
                   /\ m[base + 1] = HumanMessage(req[r].question)
           /\ "JUDGE" \in Ran(r)
                => /\ req[r].judged = base + 2
                   /\ m[req[r].judged] = [type |-> "ai", content |-> <<"draft", "AGENT">>]
           /\ \A i \in 1..(Len(req[r].trace) - 1) :
                 req[r].trace[i] = "JUDGE"
                    => req[r].trace[i + 1] =
                          IF req[r].events[i].msg = "Verified"
                          THEN "GENERATE_ANSWER" ELSE "SEARCH_TAVILY"
           /\ "GENERATE_ANSWER" \in Ran(r)
                => /\ req[r].formatted =
                         IF "FINAL_AGENT" \in Ran(r) THEN base + 3 ELSE base + 2
                   /\ m[req[r].formatted] =
                         [type |-> "ai",
                          content |-> <<"draft", IF "FINAL_AGENT" \in Ran(r)
                                                 THEN "FINAL_AGENT" ELSE "AGENT">>]

\* the second turn on a chat found the three messages of the first, which the
\* judge had accepted; its own draft was rejected, and it has formatted the
\* draft of its fallback branch
C32_Witness ==
    /\ req[1].chat_id = req[2].chat_id
    /\ req[1].outcome = "ok"
    /\ "FINAL_AGENT" \notin Ran(1)
    /\ req[2].base = 3
    /\ "FINAL_AGENT" \in Ran(2)
    /\ "GENERATE_ANSWER" \in Ran(2)
    /\ req[2].judged = 5
    /\ req[2].formatted = 6


-----------------------------------------------------------------------------
(* What a turn leaves alone, checked under SpecPair *)

\* this step belongs to a stream call on the chat
ActsOn(chat_id) ==
    \/ \E r \in 1..MaxCalls : req'[r] # req[r] /\ req'[r].chat_id = chat_id
    \/ /\ req' = req
       /\ resp'.op = "stream"
       /\ resp'.chat_id = chat_id

\* the step changes nothing that is stored or cached for the chat
Untouched(chat_id) ==
    /\ MessagesOf(messages', chat_id) = MessagesOf(messages, chat_id)
    /\ {c \in chats' : c.id = chat_id} = {c \in chats : c.id = chat_id}
    /\ (chat_id \in DOMAIN summary_cache') = (chat_id \in DOMAIN summary_cache)
    /\ SummaryOf(summary_cache', chat_id) = SummaryOf(summary_cache, chat_id)
    /\ (chat_id \in DOMAIN active_graphs') = (chat_id \in DOMAIN active_graphs)
    /\ chat_id \in DOMAIN active_graphs
          => active_graphs'[chat_id] = active_graphs[chat_id]

\* C33: every step of a stream turn on a chat, whether the turn succeeds or
\* fails, leaves the stored messages, the chat row with its last_session, the
\* summary cache entry and the pipeline cache entry of every other chat as
\* they were
C33_TurnLeavesOtherChats ==
    [][\A a, b \in 1..MaxChats :
          (a # b /\ ActsOn(a)) => Untouched(b)]_vars

\* a turn on bob's chat 2 has completed and one on alice's chat 1 has failed,
\* while chat 1 has a summary and a pipeline of its own and chat 2 its two
\* earlier messages, its new ones and its pipeline
C33_Witness ==
    /\ \E r \in 1..MaxCalls : req[r].chat_id = 2 /\ req[r].outcome = "ok"
    /\ \E r \in 1..MaxCalls : req[r].chat_id = 1 /\ req[r].outcome = "error"
    /\ 1 \in DOMAIN summary_cache
    /\ 2 \notin DOMAIN summary_cache
    /\ DOMAIN active_graphs = {1, 2}
    /\ Len(MessagesOf(messages, 2)) = 4
    /\ active_graphs[2].url = "B"

====
